---- MODULE Spec2Model ----
(***************************************************************************)
(* Resume pipeline: tokenizer, job-type classifier, fit scorer, URL        *)
(* canonicalisation and contact-link merging; normalisation of labelled    *)
(* resumes, date and section parsing, PDF link extraction; the pipeline    *)
(* runs and stages of the API, the resume-type classifier, the two tables  *)
(* with the sessions of update_portfolio, and the upload of a resume with  *)
(* its storage retries.                                                    *)
(*                                                                         *)
(* Text is held as TLA+ strings; a character is a string of length one.    *)
(* Scores that the program holds as floats are held in fixed point: a      *)
(* score s is the integer floor(1000 * s) ("thousandths").                 *)
(***************************************************************************)
EXTENDS Integers, Sequences, FiniteSets, TLC

VARIABLES
  pc,               \* position of the run: "start" or "done"
  value,            \* _tokenize_text: the input text
  tokens,           \* _tokenize_text: the returned list
  taxonomy,         \* JOB_TYPE_DEFINITIONS
  description,      \* _infer_job_type_from_description: description
  skill_tokens,     \* _infer_job_type_from_description: skill_tokens
  classification,   \* _infer_job_type_from_description: the returned dict
  normalized_payload, \* _score_resume_fit: normalized_payload
  job_description,  \* _score_resume_fit: job_description
  fit,              \* _score_resume_fit: the outcome (a FitResult or the error)
  url,              \* canonicalize_http_url: the argument
  canonical,        \* canonicalize_http_url: results of successive applications
  text_found,       \* build_structure / merge_contact_links: URLs found in text
  text_emails,      \* build_structure: e-mail addresses found in text
  embedded_links,   \* build_structure / merge_contact_links: link annotations
  contact_links,    \* merge_contact_links: the returned links
  llm_parsed,       \* _normalized_payload: the parsed resume (parsed)
  norm_result,      \* _normalized_payload: the outcome (a payload or the error)
  resume_text,      \* split_sections: raw_text
  resume_sections,  \* split_sections: the returned sections
  experience_entries, \* parse_experience_section over the Work Experience sections
  education_entries,  \* parse_education_section over the Education sections
  contact_block,    \* extract_urls: text
  contact_emails,   \* extract_urls: emails
  extracted_urls,   \* extract_urls: the returned list
  pdf_pages,        \* extract_text_and_links: reader.pages
  extraction,       \* extract_text_and_links: the outcome (text and links, or raises)
  definition_token_counters, \* _DEFINITION_TOKEN_COUNTERS, shared by the runs
  keyword_pattern_cache,     \* _KEYWORD_PATTERN_CACHE, shared by the runs
  runs,             \* the concurrent pipeline runs: position and locals of each
  portfolio,        \* the rows of the PortfolioDraft table
  response,         \* the response to the last request since the start-up
  stored_resume,    \* the ResumeDocument row of the request: a list of at most one
  fit_response,     \* the response of evaluate_resume_fit
  heap,             \* the objects: lists, dicts and classification results
  heap_before,      \* the heap when the last stage was called
  stage_args,       \* the arguments of the last stage: references or values
  stage_result,     \* what the last stage returned: a reference or a value
  resume_documents, \* the rows of the resume_documents table
  portfolio_drafts, \* the rows of the portfolio_drafts table
  sessions,         \* update_portfolio: the requests in flight and their answers
  clock,            \* the time: it ticks when an update request arrives
  upload_run,       \* _process_resume_request: position and locals of the run
  tmp_files,        \* the temporary PDF files that exist, by the run that made them
  storage_log,      \* _upload_sync: the upload attempts and the sleeps so far
  added_rows,       \* the rows the commits of _persist_resume added
  date_text,        \* parse_date_range: text
  date_range        \* parse_date_range: the returned pair

tokVars == <<value, tokens>>
clsVars == <<taxonomy, description, skill_tokens, classification>>
fitVars == <<normalized_payload, job_description, fit>>
urlVars == <<url, canonical>>
mrgVars == <<text_found, text_emails, embedded_links, contact_links>>
nrmVars == <<llm_parsed, norm_result>>
secVars ==
  <<resume_text, resume_sections, experience_entries, education_entries>>
dateVars == <<date_text, date_range>>
eurlVars == <<contact_block, contact_emails, extracted_urls>>
pdfVars == <<pdf_pages, extraction>>
runVars == <<definition_token_counters, keyword_pattern_cache, runs>>
pfVars == <<portfolio, response>>
fepVars == <<stored_resume, fit_response>>
heapVars == <<heap, heap_before, stage_args, stage_result>>
dbVars == <<resume_documents, portfolio_drafts, sessions, clock>>
upVars == <<upload_run, tmp_files, storage_log, added_rows>>
extVars == <<nrmVars, secVars, dateVars, eurlVars, pdfVars, runVars, pfVars, heapVars, fepVars, dbVars, upVars>>
nrmRest == <<secVars, dateVars, eurlVars, pdfVars, runVars, pfVars, heapVars, fepVars, dbVars, upVars>>
secRest == <<nrmVars, dateVars, eurlVars, pdfVars, runVars, pfVars, heapVars, fepVars, dbVars, upVars>>
dateRest == <<nrmVars, secVars, eurlVars, pdfVars, runVars, pfVars, heapVars, fepVars, dbVars, upVars>>
eurlRest == <<nrmVars, secVars, dateVars, pdfVars, runVars, pfVars, heapVars, fepVars, dbVars, upVars>>
pdfRest == <<nrmVars, secVars, dateVars, eurlVars, runVars, pfVars, heapVars, fepVars, dbVars, upVars>>
runRest == <<nrmVars, secVars, dateVars, eurlVars, pdfVars, pfVars, heapVars, fepVars, dbVars, upVars>>
pfRest == <<nrmVars, secVars, dateVars, eurlVars, pdfVars, runVars, heapVars, fepVars, dbVars, upVars>>
heapRest == <<nrmVars, secVars, dateVars, eurlVars, pdfVars, runVars, pfVars, fepVars, dbVars, upVars>>
fepRest == <<nrmVars, secVars, dateVars, eurlVars, pdfVars, runVars, pfVars, heapVars, dbVars, upVars>>
dbRest == <<nrmVars, secVars, dateVars, eurlVars, pdfVars, runVars, pfVars, heapVars, fepVars, upVars>>
upRest == <<nrmVars, secVars, dateVars, eurlVars, pdfVars, runVars, pfVars, heapVars, fepVars, dbVars>>
oldVars == <<tokVars, clsVars, fitVars, urlVars, mrgVars>>
vars == <<pc, oldVars, extVars>>

(***************************************************************************)
(* Bounds of the model.                                                    *)
(***************************************************************************)
MaxTokWords == 2
MaxDescriptionWords == 2
MaxJobWords == 3
MaxUrlPieces == 4
MaxTextUrls == 2
MaxEmbeddedLinks == 2
MaxExperienceItems == 1
MaxOverflow == 2

(***************************************************************************)
(* Strings.                                                                *)
(***************************************************************************)
Char(s, i) == SubSeq(s, i, i)
CharsOf(s) == {Char(s, i) : i \in 1..Len(s)}
From(s, i) == SubSeq(s, i, Len(s))
Upto(s, i) == SubSeq(s, 1, i)

AsciiLower == "abcdefghijklmnopqrstuvwxyz"
AsciiUpper == "ABCDEFGHIJKLMNOPQRSTUVWXYZ"
AsciiDigits == "0123456789"
LowerSet == CharsOf(AsciiLower)
UpperSet == CharsOf(AsciiUpper)
DigitSet == CharsOf(AsciiDigits)
\* the model's strings are ASCII; a character outside ASCII that the program
\* treats specially is written as an ASCII character the texts of the model
\* use for nothing else: the bullet U+2022, the en dash U+2013, the em dash
\* U+2014 and the long s U+017F
BULLET == "*"
EN_DASH == "~"
EM_DASH == "^"
LONG_S == "_"
\* str.strip, str.split: the ASCII whitespace the model's texts can hold
Whitespace == {" ", "\t", "\n", "\r"}

\* str.lower() on one character
LowerOf ==
  [c \in UpperSet |->
     Char(AsciiLower, CHOOSE i \in 1..26 : Char(AsciiUpper, i) = c)]
LowerChar(c) == IF c \in UpperSet THEN LowerOf[c] ELSE c

RECURSIVE lower(_)
lower(s) ==
  IF Len(s) = 0 THEN ""
  ELSE IF Len(s) = 1 THEN LowerChar(s)
  ELSE LET half == Len(s) \div 2
       IN lower(Upto(s, half)) \o lower(From(s, half + 1))

startswith(s, prefix) == Len(s) >= Len(prefix) /\ Upto(s, Len(prefix)) = prefix
endswith(s, suffix) ==
  Len(s) >= Len(suffix) /\ From(s, Len(s) - Len(suffix) + 1) = suffix

RECURSIVE lstrip(_, _)
lstrip(s, chars) ==
  IF s # "" /\ Char(s, 1) \in chars THEN lstrip(From(s, 2), chars) ELSE s

RECURSIVE rstrip(_, _)
rstrip(s, chars) ==
  IF s # "" /\ Char(s, Len(s)) \in chars
  THEN rstrip(Upto(s, Len(s) - 1), chars)
  ELSE s

strip(s) == lstrip(rstrip(s, Whitespace), Whitespace)

\* str.find: index (from 1) of the first occurrence of sub in s at or after
\* position start, 0 when there is none
find(s, sub, start) ==
  LET hits == {i \in start..(Len(s) - Len(sub) + 1) :
                 SubSeq(s, i, i + Len(sub) - 1) = sub}
  IN IF hits = {} THEN 0 ELSE CHOOSE i \in hits : \A j \in hits : i <= j

\* str.rfind: index of the last occurrence, 0 when there is none
rfind(s, sub) ==
  LET hits == {i \in 1..(Len(s) - Len(sub) + 1) :
                 SubSeq(s, i, i + Len(sub) - 1) = sub}
  IN IF hits = {} THEN 0 ELSE CHOOSE i \in hits : \A j \in hits : i >= j

\* the maximal runs of characters of the set chars, in order:
\* re.findall(r"[...]+", s), and str.split() for the complement of whitespace
Runs(s, chars) ==
  LET inside(i) == i >= 1 /\ i <= Len(s) /\ Char(s, i) \in chars
      starts == {i \in 1..Len(s) : inside(i) /\ ~inside(i - 1)}
      ends == {i \in 1..Len(s) : inside(i) /\ ~inside(i + 1)}
      start(k) == CHOOSE i \in starts :
                    Cardinality({j \in starts : j < i}) = k - 1
      end(k) == CHOOSE i \in ends : Cardinality({j \in ends : j < i}) = k - 1
  IN [k \in 1..Cardinality(starts) |-> SubSeq(s, start(k), end(k))]

\* str.split() with no argument: the runs of non-whitespace characters
split(s) == Runs(s, CharsOf(s) \ Whitespace)

\* sep.join(parts)
RECURSIVE join(_, _)
join(sep, parts) ==
  IF parts = <<>> THEN ""
  ELSE IF Len(parts) = 1 THEN parts[1]
  ELSE parts[1] \o sep \o join(sep, Tail(parts))

\* the sequences over S of length at most n
SeqsUpTo(S, n) == UNION {[1..k -> S] : k \in 0..n}

Range(f) == {f[i] : i \in DOMAIN f}

Min(a, b) == IF a <= b THEN a ELSE b
Max(a, b) == IF a >= b THEN a ELSE b

(***************************************************************************)
(* Tokenizer (backend/app.py).                                             *)
(***************************************************************************)
FIT_STOP_WORDS ==
  {
    "the", "and", "for", "with", "that", "this", "from", "have", "will",
    "your", "their", "about", "these", "those", "also", "which", "in", "to",
    "by", "of", "or", "on", "at", "as", "a", "an", "communicate",
    "experience", "skills", "work", "team", "role", "responsibilities",
    "project", "projects", "ability", "candidate", "strong", "preferred",
    "time", "multiple", "drive", "support"
  }

Vowels == {"a", "e", "i", "o", "u"}

_normalize_token_word(token) ==
  IF token = "" THEN token
  ELSE
    LET n == Len(token)
        stemmed ==
          IF n > 4
          THEN IF endswith(token, "ies") /\ Char(token, n - 3) \notin Vowels
               THEN Upto(token, n - 3) \o "y"
               ELSE IF endswith(token, "ses") /\ ~endswith(token, "sses")
               THEN Upto(token, n - 2)
               ELSE IF /\ endswith(token, "s")
                       /\ ~endswith(token, "ss")
                       /\ ~endswith(token, "us")
                       /\ ~endswith(token, "is")
               THEN Upto(token, n - 1)
               ELSE token
          ELSE token
    IN IF stemmed = "" THEN token ELSE stemmed

\* the loop of _tokenize_text over the regex candidates
RECURSIVE NormalizeCandidates(_)
NormalizeCandidates(candidates) ==
  IF candidates = <<>> THEN <<>>
  ELSE LET candidate == Head(candidates)
       IN IF candidate \in FIT_STOP_WORDS \/ Len(candidate) <= 2
          THEN NormalizeCandidates(Tail(candidates))
          ELSE <<_normalize_token_word(candidate)>>
                 \o NormalizeCandidates(Tail(candidates))

_tokenize_text(text) ==
  IF text = "" THEN <<>>
  ELSE NormalizeCandidates(Runs(lower(text), LowerSet \cup DigitSet))

(***************************************************************************)
(* Counters and cosine similarity (backend/app.py).                        *)
(***************************************************************************)
\* collections.Counter over a list: token -> number of occurrences
Counter(list) ==
  [t \in Range(list) |-> Cardinality({i \in DOMAIN list : list[i] = t})]

RECURSIVE SumOver(_, _)
SumOver(S, f) ==
  IF S = {} THEN 0
  ELSE LET x == CHOOSE y \in S : TRUE IN f[x] + SumOver(S \ {x}, f)

\* the largest r in lo..hi with r * r * den <= num, by bisection
RECURSIVE SqrtRatioFloor(_, _, _, _)
SqrtRatioFloor(num, den, lo, hi) ==
  IF lo >= hi THEN lo
  ELSE LET mid == (lo + hi + 1) \div 2
       IN IF mid * mid * den <= num
          THEN SqrtRatioFloor(num, den, mid, hi)
          ELSE SqrtRatioFloor(num, den, lo, mid - 1)

DotProduct(counter_a, counter_b) ==
  LET both == DOMAIN counter_a \cap DOMAIN counter_b
  IN SumOver(both, [t \in both |-> counter_a[t] * counter_b[t]])

SquaredNorm(counter) ==
  SumOver(DOMAIN counter, [t \in DOMAIN counter |-> counter[t] * counter[t]])

\* _cosine_similarity in thousandths: floor(1000 * dot / (norm_a * norm_b))
_cosine_similarity(counter_a, counter_b) ==
  LET dot_product == DotProduct(counter_a, counter_b)
      norm2_a == SquaredNorm(counter_a)
      norm2_b == SquaredNorm(counter_b)
  IN IF norm2_a = 0 \/ norm2_b = 0 THEN 0
     ELSE SqrtRatioFloor(dot_product * dot_product * 1000000,
                         norm2_a * norm2_b, 0, 1000)

(***************************************************************************)
(* Keyword lookup (backend/app.py).                                        *)
(***************************************************************************)
WordChars == LowerSet \cup UpperSet \cup DigitSet \cup {"_"}

\* regex \b between positions i - 1 and i of text
WordBoundary(text, i) ==
  LET before == i > 1 /\ i - 1 <= Len(text) /\ Char(text, i - 1) \in WordChars
      after == i >= 1 /\ i <= Len(text) /\ Char(text, i) \in WordChars
  IN before # after

\* the position after a match of the literal phrase at position i of text, where
\* a space of the phrase stands for \s+; 0 when the phrase does not match there
RECURSIVE MatchPhraseAt(_, _, _)
MatchPhraseAt(text, i, phrase) ==
  IF phrase = "" THEN i
  ELSE IF i > Len(text) THEN 0
  ELSE IF Char(phrase, 1) = " "
       THEN IF Char(text, i) \in Whitespace
            THEN LET rest == From(text, i)
                     skipped == Len(rest) - Len(lstrip(rest, Whitespace))
                 IN MatchPhraseAt(text, i + skipped, From(phrase, 2))
            ELSE 0
       ELSE IF Char(text, i) = Char(phrase, 1)
            THEN MatchPhraseAt(text, i + 1, From(phrase, 2))
            ELSE 0

\* _keyword_pattern(keyword).search(text): \b<phrase>(?:s)?\b, ignoring case;
\* the optional s is absent from the pattern when the phrase ends with s
PatternSearch(normalized, text) ==
  LET low == lower(text)
  IN \E i \in 1..Len(low) :
       /\ WordBoundary(low, i)
       /\ LET end == MatchPhraseAt(low, i, normalized)
          IN /\ end # 0
             /\ \/ WordBoundary(low, end)
                \/ /\ ~endswith(normalized, "s")
                   /\ end <= Len(low)
                   /\ Char(low, end) = "s"
                   /\ WordBoundary(low, end + 1)

\* the cache key of _keyword_pattern
NormalizeKeyword(keyword) == join(" ", split(lower(strip(keyword))))

_keyword_in_text(keyword, text) ==
  IF keyword = "" \/ text = "" THEN FALSE
  ELSE LET normalized == NormalizeKeyword(keyword)
       IN IF normalized = "" THEN FALSE   \* ValueError, caught
          ELSE PatternSearch(normalized, text)

(***************************************************************************)
(* Job-type classifier (backend/app.py).  keyword, semantic and skill      *)
(* scores are in thousandths; combined scores and confidences before       *)
(* rounding are in hundred-thousandths (0.45 is 45000).                    *)
(***************************************************************************)
JobTypePool ==
  {[id |-> "data-engineering", label |-> "Data Engineering",
    keywords |-> <<"data pipelines">>,
    skill_keywords |-> <<"Spark", "Kafka">>],
   [id |-> "design", label |-> "Product Design",
    keywords |-> <<"UI", "UX">>,
    skill_keywords |-> <<"Figma", "Sketch", "CSS", "Go">>],
   [id |-> "backend", label |-> "Backend Engineering",
    keywords |-> <<"python", "api">>,
    skill_keywords |-> <<"Python", "FastAPI">>]}

\* the term-frequency table built when the module is loaded
_DEFINITION_TOKEN_COUNTERS ==
  [id \in {d.id : d \in JobTypePool} |->
     LET definition == CHOOSE d \in JobTypePool : d.id = id
     IN Counter(_tokenize_text(
          join(" ", definition.keywords \o definition.skill_keywords)))]

_general_job_type ==
  [category |-> "General", category_id |-> "general", confidence |-> 0,
   matches |-> <<>>, matched_skills |-> <<>>]

\* list(dict.fromkeys(list)): first occurrences, in order
RECURSIVE unique_preserve_order(_)
unique_preserve_order(items) ==
  IF items = <<>> THEN <<>>
  ELSE LET rest == unique_preserve_order(Upto(items, Len(items) - 1))
           last == items[Len(items)]
       IN IF last \in Range(rest) THEN rest ELSE Append(rest, last)

\* [x for x in list if keep[x]]
RECURSIVE Filter(_, _)
Filter(list, keep) ==
  IF list = <<>> THEN <<>>
  ELSE (IF Head(list) \in keep THEN <<Head(list)>> ELSE <<>>)
         \o Filter(Tail(list), keep)


Fraction(count, total) == (1000 * count) \div (IF total > 1 THEN total ELSE 1)

\* whether one skill keyword of a definition counts as matched
SkillKeywordMatches(skill_keyword, clean, normalized_skill_tokens) ==
  LET normalized == lower(strip(skill_keyword))
  IN /\ normalized # ""
     /\ \/ /\ normalized_skill_tokens # {}
           /\ \/ normalized \in normalized_skill_tokens
              \/ \E token \in Range(_tokenize_text(normalized)) :
                   token \in normalized_skill_tokens
        \/ _keyword_in_text(skill_keyword, clean)

\* the record the loop over JOB_TYPE_DEFINITIONS appends for one definition
ScoredRecord(definition, matches, skill_matches, semantic_score) ==
  [definition |-> definition,
   matches |-> matches,
   skill_matches |-> skill_matches,
   score |-> 45 * Fraction(Len(matches), Len(definition.keywords))
               + 35 * semantic_score
               + 20 * (IF definition.skill_keywords # <<>>
                       THEN Fraction(Len(skill_matches),
                                     Len(definition.skill_keywords))
                       ELSE 0),
   similarity |-> semantic_score]

\* the body of the loop over JOB_TYPE_DEFINITIONS for one definition
ScoreDefinition(definition, clean, job_counter, normalized_skill_tokens) ==
  ScoredRecord(
    definition,
    Filter(definition.keywords,
           {k \in Range(definition.keywords) : _keyword_in_text(k, clean)}),
    Filter(definition.skill_keywords,
           {k \in Range(definition.skill_keywords) :
              SkillKeywordMatches(k, clean, normalized_skill_tokens)}),
    _cosine_similarity(job_counter, _DEFINITION_TOKEN_COUNTERS[definition.id]))

\* whether a scored definition replaces the best one so far (best is a list of
\* at most one element: empty is None)
ReplacesBestNoTieBreak(scored, best) ==
  \/ best = <<>>
  \/ scored.score > best[1].score

\* a variant with the comparison of the scores reversed
ReplacesBestLowest(scored, best) ==
  \/ best = <<>>
  \/ scored.score < best[1].score

ReplacesBest(scored, best) ==
  \/ best = <<>>
  \/ scored.score > best[1].score
  \/ /\ scored.score = best[1].score
     /\ scored.similarity > best[1].similarity

RECURSIVE SelectBest(_, _)
SelectBest(scored_list, best) ==
  IF scored_list = <<>> THEN best
  ELSE SelectBest(Tail(scored_list),
                  IF ReplacesBest(Head(scored_list), best)
                  THEN <<Head(scored_list)>>
                  ELSE best)

\* sorted(scores, reverse=True)[1]: the second largest with multiplicity
SecondLargest(scores) ==
  LET top == CHOOSE i \in DOMAIN scores : \A j \in DOMAIN scores :
                                             scores[i] >= scores[j]
      others == {scores[j] : j \in DOMAIN scores \ {top}}
  IN CHOOSE x \in others : \A y \in others : x >= y

\* floor(100000 * best_score / denom) without leaving 32 bits
Ratio(best_score, denom) ==
  LET q == (best_score * 10000) \div denom
      r == (best_score * 10000) % denom
  IN q * 10 + (r * 10) \div denom

\* the calibration of the top-2 ratio, with the boosts
CalibrateUncapped(best_score, second_best, match_strength, sim) ==
  LET base == Max(35000, Min(95000, Ratio(best_score, best_score + second_best)))
      by_matches ==
        IF match_strength >= 8 THEN base + 6000
        ELSE IF match_strength >= 5 THEN base + 4000
        ELSE IF match_strength >= 3 THEN base + 2000
        ELSE base
  IN IF sim >= 500 THEN by_matches + 3000
     ELSE IF sim >= 300 THEN by_matches + 2000
     ELSE IF sim >= 150 THEN by_matches + 1000
     ELSE by_matches

Calibrate(best_score, second_best, match_strength, sim) ==
  LET base == Max(35000, Min(95000, Ratio(best_score, best_score + second_best)))
      by_matches ==
        IF match_strength >= 8 THEN Min(95000, base + 6000)
        ELSE IF match_strength >= 5 THEN Min(92000, base + 4000)
        ELSE IF match_strength >= 3 THEN Min(90000, base + 2000)
        ELSE base
  IN IF sim >= 500 THEN Min(95000, by_matches + 3000)
     ELSE IF sim >= 300 THEN Min(93000, by_matches + 2000)
     ELSE IF sim >= 150 THEN Min(90000, by_matches + 1000)
     ELSE by_matches

\* normalized_confidence before the fallback, in hundred-thousandths
CalibratedConfidence(best, all_scores) ==
  LET scores == Filter(all_scores, {x \in Range(all_scores) : x > 0})
      best_score == best.score
      second_best == IF Len(scores) > 1 THEN SecondLargest(scores) ELSE 0
  IN IF scores # <<>> /\ best_score + second_best > 0
     THEN Calibrate(best_score, second_best,
                    Len(best.matches) + Len(best.skill_matches),
                    best.similarity)
     ELSE 0

\* whether the fallback for matches without a score sets the confidence
FallbackApplies(best, calibrated) ==
  calibrated = 0 /\ (best.matches # <<>> \/ best.skill_matches # <<>>)

\* normalized_confidence before rounding, in hundred-thousandths
NormalizedConfidence(best, all_scores) ==
  IF FallbackApplies(best, CalibratedConfidence(best, all_scores))
  THEN Min(80000, Max(50000, best.score))
  ELSE CalibratedConfidence(best, all_scores)

\* round(x, 3) of a value in hundred-thousandths, in thousandths (half to even)
Round3(x) ==
  LET q == x \div 100
      r == x % 100
  IN IF r > 50 \/ (r = 50 /\ q % 2 = 1) THEN q + 1 ELSE q

\* the scored definitions, in taxonomy order
ScoredDefinitions(definitions, clean, normalized_skill_tokens) ==
  LET job_counter == Counter(_tokenize_text(clean))
  IN [i \in DOMAIN definitions |->
        ScoreDefinition(definitions[i], clean, job_counter,
                        normalized_skill_tokens)]

\* the returned dict for the best scored definition
ResultFor(best, all_scores) ==
  [category |-> best.definition.label,
   category_id |-> best.definition.id,
   confidence |-> Round3(NormalizedConfidence(best, all_scores)),
   matches |-> unique_preserve_order(best.matches \o best.skill_matches),
   matched_skills |-> unique_preserve_order(best.skill_matches),
   similarity |-> best.similarity]

\* chosen is the best scored definition as a list of at most one element
ResultForChosen(chosen, scored) ==
  IF chosen = <<>> THEN _general_job_type
  ELSE ResultFor(chosen[1], [i \in DOMAIN scored |-> scored[i].score])

ResultForScored(scored) == ResultForChosen(SelectBest(scored, <<>>), scored)

\* clean is the description with its whitespace collapsed
Classified(definitions, clean, normalized_skill_tokens) ==
  IF clean = "" /\ normalized_skill_tokens = {} THEN _general_job_type
  ELSE IF _tokenize_text(clean) = <<>> /\ normalized_skill_tokens = {}
  THEN _general_job_type
  ELSE ResultForScored(ScoredDefinitions(definitions, clean,
                                         normalized_skill_tokens))

_infer_job_type_from_description(definitions, text, tokens_or_none) ==
  Classified(definitions, join(" ", split(text)), tokens_or_none)

(***************************************************************************)
(* Fit scorer (backend/app.py).  A dict is a record; dict.get of a missing *)
(* key and None are the empty string where a string is expected.  The     *)
(* blended score 0.65 * cosine + 0.35 * coverage is irrational in general, *)
(* so it is never stored: it is compared exactly with rationals h / 200.   *)
(***************************************************************************)
None == [None |-> TRUE]
EmptyDict == [k \in {} |-> ""]

Get(entry, key) == IF key \in DOMAIN entry THEN entry[key] ELSE ""
GetList(entry, key) == IF key \in DOMAIN entry THEN entry[key] ELSE <<>>

\* [s.strip() for s in values if s.strip()]
RECURSIVE StrippedNonEmpty(_)
StrippedNonEmpty(values) ==
  IF values = <<>> THEN <<>>
  ELSE (IF strip(Head(values)) # "" THEN <<strip(Head(values))>> ELSE <<>>)
         \o StrippedNonEmpty(Tail(values))

\* _append_entry of _build_resume_text: the values of the keys, then the bullets
AppendEntry(entry, keys) ==
  LET bullets ==
        IF GetList(entry, "bullets") # <<>>
        THEN GetList(entry, "bullets")
        ELSE GetList(entry, "achievements")
  IN StrippedNonEmpty([i \in DOMAIN keys |-> Get(entry, keys[i])])
       \o StrippedNonEmpty(bullets)

ProjectParts(project) ==
  LET described ==
        IF Get(project, "description") # ""
        THEN Get(project, "description")
        ELSE Get(project, "summary")
  IN AppendEntry(project, <<"name", "title", "role">>)
       \o StrippedNonEmpty(<<described>>)

ExperienceParts(item) ==
  AppendEntry(item, <<"role", "company", "title", "organization">>)

\* the loops of _build_resume_text over the experience and project entries
RECURSIVE AllExperienceParts(_)
AllExperienceParts(items) ==
  IF items = <<>> THEN <<>>
  ELSE ExperienceParts(Head(items)) \o AllExperienceParts(Tail(items))

RECURSIVE AllProjectParts(_)
AllProjectParts(items) ==
  IF items = <<>> THEN <<>>
  ELSE ProjectParts(Head(items)) \o AllProjectParts(Tail(items))

_build_resume_text(normalized) ==
  join(" ",
       StrippedNonEmpty(<<Get(normalized, "summary")>>)
         \o AllExperienceParts(GetList(normalized, "experience"))
         \o AllProjectParts(GetList(normalized, "projects"))
         \o StrippedNonEmpty(GetList(normalized, "skills")))

\* sorted(list, key=counts.get, reverse=True): stable, largest count first
RECURSIVE SortedByCountDescending(_, _)
SortedByCountDescending(list, counts) ==
  IF list = <<>> THEN <<>>
  ELSE LET sorted == SortedByCountDescending(Upto(list, Len(list) - 1), counts)
           last == list[Len(list)]
           ahead == {i \in DOMAIN sorted : counts[sorted[i]] >= counts[last]}
           k == IF ahead = {} THEN 0
                ELSE CHOOSE i \in ahead : \A j \in ahead : i >= j
       IN Upto(sorted, k) \o <<last>> \o From(sorted, k + 1)

\* a variant that never truncates
TakeAll(list, n) == list

\* list[:n]
Take(list, n) == Upto(list, Min(n, Len(list)))

\* whether 0.65 * cosine + 0.35 * coverage >= h / 200, with
\* cosine = dot / sqrt(norms2) (0 when norms2 = 0) and coverage = shared / distinct:
\* cosine >= a / b with a = h * distinct - 70 * shared and b = 130 * distinct,
\* that is (dot * b)^2 >= a^2 * norms2 when a > 0
BlendedAtLeast(dot, norms2, shared, distinct, h) ==
  LET a == h * distinct - 70 * shared
      x == dot * 130 * distinct
  IN \/ a <= 0
     \/ norms2 > 0 /\ norms2 <= (x * x) \div (a * a)

\* whether 0.65 * cosine + 0.35 * coverage = h / 200
BlendedEquals(dot, norms2, shared, distinct, h) ==
  LET a == h * distinct - 70 * shared
      x == dot * 130 * distinct
  IN \/ a = 0 /\ (norms2 = 0 \/ dot = 0)
     \/ a > 0 /\ norms2 > 0 /\ (x * x) % (a * a) = 0
              /\ norms2 = (x * x) \div (a * a)

\* _fit_level of the blended score
_fit_level(dot, norms2, shared, distinct) ==
  IF BlendedAtLeast(dot, norms2, shared, distinct, 170) THEN "Excellent fit"
  ELSE IF BlendedAtLeast(dot, norms2, shared, distinct, 130) THEN "Strong fit"
  ELSE IF BlendedAtLeast(dot, norms2, shared, distinct, 80) THEN "Moderate fit"
  ELSE "Needs more alignment"

\* the level computed from the rounded score instead of the blended score
FitLevelOfRoundedScore(score) ==
  IF score >= 85 THEN "Excellent fit"
  ELSE IF score >= 65 THEN "Strong fit"
  ELSE IF score >= 40 THEN "Moderate fit"
  ELSE "Needs more alignment"

\* int(round(blended_score * 100)): the nearest integer.  A product that is
\* exactly halfway between two integers is decided by the binary floating
\* point error of blended_score * 100, which falls on either side: half_up
\* tells which neighbour the float lands on.
RoundedScore(dot, norms2, shared, distinct, half_up) ==
  LET up == CHOOSE n \in 0..100 :
              /\ BlendedAtLeast(dot, norms2, shared, distinct, 2 * n - 1)
              /\ n < 100 => ~BlendedAtLeast(dot, norms2, shared, distinct,
                                            2 * n + 1)
  IN IF BlendedEquals(dot, norms2, shared, distinct, 2 * up - 1) /\ ~half_up
     THEN up - 1
     ELSE up

Recommendations(matched_tokens, missing_tokens) ==
  (IF matched_tokens # <<>>
   THEN <<"Reinforce the matched concepts with disciplined impact statements around the highlighted experience.">>
   ELSE <<>>)
    \o (IF missing_tokens # <<>>
        THEN <<"Consider weaving " \o join(", ", Take(missing_tokens, 3))
                 \o " into your summary or highlights for a tighter match.">>
        ELSE <<>>)
    \o (IF matched_tokens = <<>>
        THEN <<"Add more specific achievements that mirror the job description language to raise confidence.">>
        ELSE <<>>)

\* the FitResult assembled from the two token lists (job_tokens non-empty in
\* the program)
BuildFitResult(resume_tokens, job_tokens, half_up) ==
  LET resume_counts == Counter(resume_tokens)
      job_counts == Counter(job_tokens)
      dot == DotProduct(resume_counts, job_counts)
      norms2 == SquaredNorm(resume_counts) * SquaredNorm(job_counts)
      shared == Cardinality(DOMAIN job_counts \cap DOMAIN resume_counts)
      distinct == Cardinality(DOMAIN job_counts)
      by_frequency ==
        SortedByCountDescending(unique_preserve_order(job_tokens), job_counts)
      matched_tokens == Filter(by_frequency, DOMAIN resume_counts)
      missing_tokens ==
        Filter(by_frequency, DOMAIN job_counts \ DOMAIN resume_counts)
  IN [outcome |-> "FitResult",
      score |-> RoundedScore(dot, norms2, shared, distinct, half_up),
      level |-> _fit_level(dot, norms2, shared, distinct),
      matchedKeywords |-> Take(matched_tokens, 8),
      missingKeywords |-> Take(missing_tokens, 5),
      recommendations |-> Recommendations(matched_tokens, missing_tokens),
      metrics |-> [resumeTokenCount |-> Len(resume_tokens),
                   jobTokenCount |-> Len(job_tokens)]]

ResumeTokensOf(payload) ==
  _tokenize_text(_build_resume_text(IF payload = None THEN EmptyDict
                                    ELSE payload))

\* a variant that rejects only the empty string instead of the empty token list
ScoreRejectingEmptyStringOnly(payload, jd, half_up) ==
  IF jd = "" THEN [outcome |-> "ValueError"]
  ELSE BuildFitResult(ResumeTokensOf(payload), _tokenize_text(jd), half_up)

_score_resume_fit(payload, jd, half_up) ==
  IF _tokenize_text(jd) = <<>> THEN [outcome |-> "ValueError"]
  ELSE BuildFitResult(ResumeTokensOf(payload), _tokenize_text(jd), half_up)

(***************************************************************************)
(* URL canonicalization (label_resume.py), with the parts of                *)
(* urllib.parse it calls.                                                   *)
(***************************************************************************)
scheme_chars == LowerSet \cup UpperSet \cup DigitSet \cup {"+", "-", "."}
uses_netloc ==
  {"", "ftp", "http", "gopher", "nntp", "telnet", "imap", "wais", "file",
   "mms", "https", "shttp", "snews", "prospero", "rtsp", "rtsps", "rtspu",
   "rsync", "svn", "svn+ssh", "sftp", "nfs", "git", "git+ssh", "ws", "wss"}
uses_params ==
  {"", "ftp", "hdl", "prospero", "http", "imap", "https", "shttp", "rtsp",
   "rtsps", "rtspu", "sip", "sips", "mms", "sftp", "tel"}

\* s.split(c, 1) for a character c that occurs in s
SplitOnce(s, c) ==
  LET i == find(s, c, 1) IN <<Upto(s, i - 1), From(s, i + 1)>>

\* _splitnetloc(url, start): the text from start up to the first of "/?#"
\* (start counted from 1)
_splitnetloc(s, start) ==
  LET hits == {i \in start..Len(s) : Char(s, i) \in {"/", "?", "#"}}
      delim == IF hits = {} THEN Len(s) + 1
               ELSE CHOOSE i \in hits : \A j \in hits : i <= j
  IN <<SubSeq(s, start, delim - 1), From(s, delim)>>

\* urlsplit(url): scheme, netloc, path, query, fragment
urlsplit(u) ==
  LET stripped == lstrip(u, Whitespace)
      i == find(stripped, ":", 1)
      has_scheme == /\ i > 1
                    /\ Char(stripped, 1) \in LowerSet \cup UpperSet
                    /\ \A k \in 1..(i - 1) : Char(stripped, k) \in scheme_chars
      scheme == IF has_scheme THEN lower(Upto(stripped, i - 1)) ELSE ""
      after_scheme == IF has_scheme THEN From(stripped, i + 1) ELSE stripped
      located == IF startswith(after_scheme, "//")
                 THEN _splitnetloc(after_scheme, 3)
                 ELSE <<"", after_scheme>>
      fragmented == IF find(located[2], "#", 1) > 0
                    THEN SplitOnce(located[2], "#")
                    ELSE <<located[2], "">>
      queried == IF find(fragmented[1], "?", 1) > 0
                 THEN SplitOnce(fragmented[1], "?")
                 ELSE <<fragmented[1], "">>
  IN [scheme |-> scheme, netloc |-> located[1], path |-> queried[1],
      query |-> queried[2], fragment |-> fragmented[2]]

\* _splitparams(url): the parameters of the last path segment
_splitparams(s) ==
  LET i == IF find(s, "/", 1) > 0 THEN find(s, ";", rfind(s, "/"))
           ELSE find(s, ";", 1)
  IN IF i = 0 THEN <<s, "">> ELSE <<Upto(s, i - 1), From(s, i + 1)>>

\* the parse result of a split result: the parameters split off the path
WithParams(splitresult) ==
  LET parted == IF /\ splitresult.scheme \in uses_params
                   /\ find(splitresult.path, ";", 1) > 0
                THEN _splitparams(splitresult.path)
                ELSE <<splitresult.path, "">>
  IN [scheme |-> splitresult.scheme, netloc |-> splitresult.netloc,
      path |-> parted[1], params |-> parted[2],
      query |-> splitresult.query, fragment |-> splitresult.fragment]

urlparse(u) == WithParams(urlsplit(u))

urlunsplit(scheme, netloc, path, query, fragment) ==
  LET rooted == IF \/ netloc # ""
                   \/ /\ scheme # ""
                      /\ scheme \in uses_netloc
                      /\ ~startswith(path, "//")
                THEN "//" \o netloc
                       \o (IF path # "" /\ ~startswith(path, "/")
                           THEN "/" \o path
                           ELSE path)
                ELSE path
      schemed == IF scheme # "" THEN scheme \o ":" \o rooted ELSE rooted
      queried == IF query # "" THEN schemed \o "?" \o query ELSE schemed
  IN IF fragment # "" THEN queried \o "#" \o fragment ELSE queried

urlunparse(scheme, netloc, path, params, query, fragment) ==
  urlunsplit(scheme, netloc,
             IF params # "" THEN path \o ";" \o params ELSE path,
             query, fragment)

\* parsed: the parse result first of the URL, or the parse result of
\* "https://" + url when first has no scheme
SchemedParse(first, stripped) ==
  IF first.scheme = "" THEN urlparse("https://" \o stripped) ELSE first

\* the canonical URL put together from the parse result
Unparse(parsed) ==
  urlunparse(IF parsed.scheme # "" THEN lower(parsed.scheme) ELSE "https",
             lower(parsed.netloc), rstrip(parsed.path, {"/"}), "", "", "")

\* canonicalize_http_url after url.strip()
CanonicalizeStripped(stripped) ==
  IF \/ stripped = ""
     \/ startswith(lower(stripped), "mailto:")
     \/ startswith(lower(stripped), "tel:")
  THEN stripped
  ELSE Unparse(SchemedParse(urlparse(stripped), stripped))

canonicalize_http_url(u) == CanonicalizeStripped(strip(u))

(***************************************************************************)
(* Contact links (label_resume.py).  A link annotation is a record of its  *)
(* url, its page and its label, the label "" standing for an absent label; *)
(* in a merged link the page 0 stands for an absent page.                  *)
(***************************************************************************)
\* the characters of the model's URLs and e-mail addresses in code point order
CodePoints ==
  " #+-./0123456789:;?@ABCDEFGHIJKLMNOPQRSTUVWXYZ_abcdefghijklmnopqrstuvwxyz"
Ord == [c \in CharsOf(CodePoints) |->
          CHOOSE i \in 1..Len(CodePoints) : Char(CodePoints, i) = c]

\* a < b for two strings, as sorted() compares them
RECURSIVE StrLess(_, _)
StrLess(a, b) ==
  IF b = "" THEN FALSE
  ELSE IF a = "" THEN TRUE
  ELSE IF Char(a, 1) = Char(b, 1) THEN StrLess(From(a, 2), From(b, 2))
  ELSE Ord[Char(a, 1)] < Ord[Char(b, 1)]

\* sorted(S) for a set of strings
RECURSIVE sorted(_)
sorted(S) ==
  IF S = {} THEN <<>>
  ELSE LET least == CHOOSE x \in S : \A y \in S \ {x} : StrLess(x, y)
       IN <<least>> \o sorted(S \ {least})

(***************************************************************************)
(* URL_RE and its matches in a text (label_resume.py).                     *)
(***************************************************************************)
\* the characters [^\s<>] excludes
UrlStops == Whitespace \cup {"<", ">"}

\* the characters of [a-zA-Z0-9.-]
DomainChars == LowerSet \cup UpperSet \cup DigitSet \cup {".", "-"}

TopLevelDomains == {"com", "org", "net", "edu", "io", "ai"}

\* the last position of the longest run of characters in chars (or, with
\* stops, outside chars) that starts at i; i - 1 when the run is empty
RECURSIVE RunEnd(_, _, _, _)
RunEnd(text, i, chars, stops) ==
  IF i <= Len(text) /\ ((Char(text, i) \in chars) # stops)
  THEN RunEnd(text, i + 1, chars, stops)
  ELSE i - 1

StartsAt(text, i, prefix) ==
  /\ i + Len(prefix) - 1 <= Len(text)
  /\ SubSeq(text, i, i + Len(prefix) - 1) = prefix

\* a prefix followed by [^\s<>]+ at position i: the last position of the
\* match, 0 when there is none
PrefixedUrlEnd(text, i, prefix) ==
  IF StartsAt(text, i, prefix)
       /\ RunEnd(text, i + Len(prefix), UrlStops, TRUE) >= i + Len(prefix)
  THEN RunEnd(text, i + Len(prefix), UrlStops, TRUE)
  ELSE 0

\* whether \.(?:com|org|net|edu|io|ai)\b matches right after position k
DomainEndsAfter(text, k) ==
  {k + 1 + Len(tld) : tld \in {t \in TopLevelDomains :
                                 /\ StartsAt(text, k + 1, "." \o t)
                                 /\ WordBoundary(text, k + 2 + Len(t))}}

\* \b[a-zA-Z0-9.-]+\.(?:com|org|net|edu|io|ai)\b at position i: the greedy
\* run gives back characters until the rest matches
BareDomainEnd(text, i) ==
  LET ends == UNION {DomainEndsAfter(text, k) :
                       k \in i..RunEnd(text, i, DomainChars, FALSE)}
  IN IF ~WordBoundary(text, i) \/ ends = {} THEN 0
     ELSE CHOOSE e \in ends : \A other \in ends : other <= e

\* the last position of the match of URL_RE at position i, 0 when there is
\* none: the alternatives are tried in order
UrlEndAt(text, i) ==
  IF PrefixedUrlEnd(text, i, "https://") > 0
  THEN PrefixedUrlEnd(text, i, "https://")
  ELSE IF PrefixedUrlEnd(text, i, "http://") > 0
  THEN PrefixedUrlEnd(text, i, "http://")
  ELSE IF PrefixedUrlEnd(text, i, "www.") > 0
  THEN PrefixedUrlEnd(text, i, "www.")
  ELSE BareDomainEnd(text, i)

\* [match.group(0) for match in URL_RE.finditer(text)] from position i
RECURSIVE UrlMatchesFrom(_, _)
UrlMatchesFrom(text, i) ==
  IF i > Len(text) THEN <<>>
  ELSE IF UrlEndAt(text, i) > 0
  THEN <<SubSeq(text, i, UrlEndAt(text, i))>>
         \o UrlMatchesFrom(text, UrlEndAt(text, i) + 1)
  ELSE UrlMatchesFrom(text, i + 1)

URL_RE(text) == UrlMatchesFrom(text, 1)

\* extract_urls, from the URL_RE matches of the text
extract_urls(matches, emails) ==
  LET urls == {strip(m) : m \in Range(matches)}
      email_domains ==
        {lower(SplitOnce(email, "@")[2]) :
           email \in {e \in Range(emails) : find(e, "@", 1) > 0}}
      without_scheme(normalized) ==
        IF startswith(normalized, "https://") THEN From(normalized, 9)
        ELSE IF startswith(normalized, "http://") THEN From(normalized, 8)
        ELSE normalized
      domain(u) ==
        LET d == without_scheme(lower(u))
        IN IF startswith(d, "www.") THEN From(d, 5) ELSE d
  IN sorted({u \in urls : domain(u) \notin email_domains})

\* the payload entry of a link annotation, without its type
EmbeddedEntry(link, stripped) ==
  [url |-> stripped, source |-> "annotation",
   label |-> link.label, page |-> link.page]

\* the summary before extended by a mailto: link
WithEmail(before, entry, email) ==
  IF email # ""
  THEN [before EXCEPT
          !.emails = Append(@, email),
          !.payload = Append(@, entry @@ [type |-> "email", value |-> email])]
  ELSE [before EXCEPT !.payload = Append(@, entry @@ [type |-> ""])]

\* the summary before extended by a tel: link
WithPhone(before, entry, phone_raw) ==
  [before EXCEPT
     !.payload = Append(@, entry @@ [type |-> IF phone_raw # "" THEN "phone"
                                               ELSE ""])]

\* the summary before extended by any other link
WithUrl(before, entry) ==
  [before EXCEPT
     !.urls = Append(@, entry.url),
     !.payload = Append(@, entry @@ [type |-> "url"])]

\* one turn of the loop of summarize_embedded_links, seen being the URLs of
\* the links before this one
SummarizeLink(before, link, stripped, seen) ==
  IF stripped = "" \/ stripped \in seen THEN before
  ELSE IF startswith(lower(stripped), "mailto:")
  THEN WithEmail(before, EmbeddedEntry(link, stripped),
                 strip(From(stripped, 8)))
  ELSE IF startswith(lower(stripped), "tel:")
  THEN WithPhone(before, EmbeddedEntry(link, stripped),
                 strip(From(stripped, 5)))
  ELSE WithUrl(before, EmbeddedEntry(link, stripped))

\* summarize_embedded_links: the e-mail addresses, the URLs and the payload
\* (the phone numbers, which the contact links do not use, are left out)
RECURSIVE summarize_embedded_links(_)
summarize_embedded_links(links) ==
  IF links = <<>> THEN [emails |-> <<>>, urls |-> <<>>, payload |-> <<>>]
  ELSE SummarizeLink(summarize_embedded_links(Upto(links, Len(links) - 1)),
                     links[Len(links)],
                     strip(links[Len(links)].url),
                     {strip(links[i].url) : i \in 1..(Len(links) - 1)})

EmptyMerge == [combined |-> <<>>, order |-> <<>>, embedded_domains |-> {}]

\* combined.setdefault(canonical, {"url": canonical})
SetDefault(combined, canonical_url) ==
  IF canonical_url \in DOMAIN combined THEN combined[canonical_url]
  ELSE [url |-> canonical_url, source |-> "", label |-> "", page |-> 0]

\* the merged link payload after an annotation entry has been applied to it
Annotated(payload, entry) ==
  [payload EXCEPT
     !.source = IF @ = "text" THEN "text+annotation"
                ELSE IF @ = "" THEN "annotation" ELSE @,
     !.label = IF entry.label # "" /\ @ = "" THEN entry.label ELSE @,
     !.page = IF entry.page # 0 THEN entry.page ELSE @]

\* one turn of the first loop of merge_contact_links
MergeEmbeddedEntry(before, entry, canonical_url, domain) ==
  IF entry.type # "url" \/ canonical_url = "" THEN before
  ELSE [combined |->
          (canonical_url :> Annotated(SetDefault(before.combined,
                                                 canonical_url), entry))
            @@ before.combined,
        order |-> IF canonical_url \in Range(before.order) THEN before.order
                  ELSE Append(before.order, canonical_url),
        embedded_domains |->
          IF domain # "" THEN before.embedded_domains \cup {domain}
          ELSE before.embedded_domains]

MergeEmbeddedCanonical(before, entry, canonical_url) ==
  MergeEmbeddedEntry(before, entry, canonical_url,
                     urlparse(canonical_url).netloc)

\* the first loop of merge_contact_links: the annotation links
RECURSIVE MergeEmbedded(_)
MergeEmbedded(embedded_payload) ==
  IF embedded_payload = <<>> THEN EmptyMerge
  ELSE MergeEmbeddedCanonical(
         MergeEmbedded(Upto(embedded_payload, Len(embedded_payload) - 1)),
         embedded_payload[Len(embedded_payload)],
         canonicalize_http_url(embedded_payload[Len(embedded_payload)].url))

\* a variant that keeps every text link, whatever its host
NeverSuppressed(domain, embedded_domains) == FALSE

\* whether a text link is dropped for sharing its host with an annotation link
Suppressed(domain, embedded_domains) ==
  domain # "" /\ domain \in embedded_domains

\* one turn of the second loop of merge_contact_links
MergeTextUrl(before, text_url, canonical_url, domain) ==
  IF \/ canonical_url = ""
     \/ startswith(canonical_url, "mailto:")
     \/ startswith(canonical_url, "tel:")
  THEN before
  ELSE IF canonical_url \in DOMAIN before.combined
  THEN [before EXCEPT
          !.combined[canonical_url] =
            [@ EXCEPT
               !.source = IF @ = "annotation" THEN "text+annotation" ELSE @,
               !.label = IF @ = "" THEN text_url ELSE @]]
  ELSE IF Suppressed(domain, before.embedded_domains) THEN before
  ELSE [before EXCEPT
          !.combined =
            (canonical_url :> [url |-> canonical_url, source |-> "text",
                               label |-> text_url, page |-> 0]) @@ @,
          !.order = Append(@, canonical_url)]

MergeTextCanonical(before, text_url, canonical_url) ==
  MergeTextUrl(before, text_url, canonical_url,
               urlparse(canonical_url).netloc)

\* the second loop of merge_contact_links: the text links, after the
\* annotation links merged into start
RECURSIVE MergeText(_, _)
MergeText(text_urls, start) ==
  IF text_urls = <<>> THEN start
  ELSE MergeTextCanonical(
         MergeText(Upto(text_urls, Len(text_urls) - 1), start),
         text_urls[Len(text_urls)],
         canonicalize_http_url(text_urls[Len(text_urls)]))

\* the last loop of merge_contact_links: the links in order
OrderedLinks(combined, order) ==
  [i \in DOMAIN order |->
     [combined[order[i]] EXCEPT !.label = IF @ = "" THEN order[i] ELSE @]]

Merged(merged) ==
  OrderedLinks(merged.combined, unique_preserve_order(merged.order))

\* merge_contact_links: the links (the URL list is the urls of the links)
merge_contact_links(text_urls, embedded_payload) ==
  Merged(MergeText(text_urls, MergeEmbedded(embedded_payload)))

\* the contact links of the summary of the link annotations and the URLs and
\* e-mail addresses of the text
ContactLinks(matches, emails_in_text, summary) ==
  merge_contact_links(
    extract_urls(matches,
                 unique_preserve_order(emails_in_text \o summary.emails))
      \o summary.urls,
    summary.payload)

\* build_structure: the contact links of the structure
build_structure(matches, emails_in_text, links) ==
  ContactLinks(matches, emails_in_text, summarize_embedded_links(links))

(***************************************************************************)
(* Loosely typed values (the JSON-like objects the LLM labeller returns,   *)
(* backend/app.py).  A value carries its Python type in t: None, a str, an  *)
(* int, a bool, a list of values, or a dict, held as the sequence of its   *)
(* items in insertion order.  Floats do not occur in the model's inputs.   *)
(***************************************************************************)
VNone == [t |-> "none"]
VStr(s) == [t |-> "str", v |-> s]
VInt(n) == [t |-> "int", v |-> n]
VBool(b) == [t |-> "bool", v |-> b]
VList(items) == [t |-> "list", v |-> items]
VDict(items) == [t |-> "dict", v |-> items]
Item(key, val) == [key |-> key, val |-> val]

\* bool(value)
Truthy(val) ==
  CASE val.t = "none" -> FALSE
    [] val.t = "str" -> val.v # ""
    [] val.t = "int" -> val.v # 0
    [] val.t = "bool" -> val.v
    [] OTHER -> val.v # <<>>

\* a or b
Or(a, b) == IF Truthy(a) THEN a ELSE b

\* dict.get(key, default)
DictGetDefault(d, key, default) ==
  LET hits == {i \in DOMAIN d.v : d.v[i].key = key}
  IN IF hits = {} THEN default ELSE d.v[CHOOSE i \in hits : TRUE].val

\* dict.get(key)
DictGet(d, key) == DictGetDefault(d, key, VNone)

\* dict[key] = val on a copy: a present key keeps its place, a new one goes last
DictSet(d, key, val) ==
  IF \E i \in DOMAIN d.v : d.v[i].key = key
  THEN VDict([i \in DOMAIN d.v |->
                IF d.v[i].key = key THEN Item(key, val) ELSE d.v[i]])
  ELSE VDict(Append(d.v, Item(key, val)))

\* repr(value), for strings without quotes, backslashes or control characters
RECURSIVE repr(_)
repr(val) ==
  CASE val.t = "none" -> "None"
    [] val.t = "str" -> "'" \o val.v \o "'"
    [] val.t = "int" -> ToString(val.v)
    [] val.t = "bool" -> IF val.v THEN "True" ELSE "False"
    [] val.t = "list" ->
         "[" \o join(", ", [i \in DOMAIN val.v |-> repr(val.v[i])]) \o "]"
    [] OTHER ->
         "{" \o join(", ", [i \in DOMAIN val.v |->
                              "'" \o val.v[i].key \o "': "
                                \o repr(val.v[i].val)]) \o "}"

\* str(value)
str(val) == IF val.t = "str" THEN val.v ELSE repr(val)

\* the list of str values of a list of texts
StrList(texts) == VList([i \in DOMAIN texts |-> VStr(texts[i])])

\* iter(value): the items a for loop visits; a str yields its characters, a
\* dict its keys; None, an int and a bool are not iterable (TypeError)
Iterable(val) == val.t \in {"str", "list", "dict"}
Iter(val) ==
  CASE val.t = "str" -> [i \in 1..Len(val.v) |-> VStr(Char(val.v, i))]
    [] val.t = "dict" -> [i \in DOMAIN val.v |-> VStr(val.v[i].key)]
    [] OTHER -> val.v

\* str.splitlines() for the line breaks "\n", "\r" and "\r\n"
splitlines(s) ==
  LET breaks == {i \in 1..Len(s) :
                   \/ Char(s, i) = "\r"
                   \/ Char(s, i) = "\n" /\ (i = 1 \/ Char(s, i - 1) # "\r")}
      width(i) == IF Char(s, i) = "\r" /\ i < Len(s) /\ Char(s, i + 1) = "\n"
                  THEN 2 ELSE 1
      nth(k) == CHOOSE i \in breaks : Cardinality({j \in breaks : j < i}) = k - 1
      first(k) == IF k = 1 THEN 1 ELSE nth(k - 1) + width(nth(k - 1))
      last(k) == IF k > Cardinality(breaks) THEN Len(s) ELSE nth(k) - 1
      count == IF s = "" THEN 0
               ELSE IF breaks # {} /\ last(Cardinality(breaks) + 1)
                                        < first(Cardinality(breaks) + 1)
               THEN Cardinality(breaks)
               ELSE Cardinality(breaks) + 1
  IN [k \in 1..count |-> SubSeq(s, first(k), last(k))]

\* str.split(sep) for a one-character separator
split_on(s, sep) ==
  LET cuts == {i \in 1..Len(s) : Char(s, i) = sep}
      nth(k) == CHOOSE i \in cuts : Cardinality({j \in cuts : j < i}) = k - 1
      first(k) == IF k = 1 THEN 1 ELSE nth(k - 1) + 1
      last(k) == IF k > Cardinality(cuts) THEN Len(s) ELSE nth(k) - 1
  IN [k \in 1..(Cardinality(cuts) + 1) |-> SubSeq(s, first(k), last(k))]

\* str.replace(old, new) for a one-character old
RECURSIVE replace(_, _, _)
replace(s, old, new) ==
  IF Len(s) = 0 THEN ""
  ELSE IF Len(s) = 1 THEN (IF s = old THEN new ELSE s)
  ELSE LET half == Len(s) \div 2
       IN replace(Upto(s, half), old, new)
            \o replace(From(s, half + 1), old, new)

(***************************************************************************)
(* Payload normalizer (backend/app.py).                                    *)
(***************************************************************************)
MAX_JOB_DESCRIPTION_LENGTH == 8 * 1024

\* confidences are held in thousandths
RAW_RESUME_FALLBACK_CONFIDENCE == 200

THEME_OPTIONS ==
  VList(<<VDict(<<Item("id", VStr("aurora")), Item("name", VStr("Aurora")),
                  Item("primary", VStr("#42a5f5")),
                  Item("accent", VStr("#f472b6"))>>),
          VDict(<<Item("id", VStr("midnight")), Item("name", VStr("Midnight")),
                  Item("primary", VStr("#6366f1")),
                  Item("accent", VStr("#22d3ee"))>>),
          VDict(<<Item("id", VStr("dawn")), Item("name", VStr("Dawn")),
                  Item("primary", VStr("#f97316")),
                  Item("accent", VStr("#facc15"))>>)>>)

RECURSIVE Concat(_)
Concat(seqs) == IF seqs = <<>> THEN <<>> ELSE Head(seqs) \o Concat(Tail(seqs))

NonEmpty(texts) == SelectSeq(texts, LAMBDA text : text # "")

\* text[:limit].rstrip() when the text is longer than the limit
Truncated(text, limit) ==
  IF Len(text) > limit THEN rstrip(Upto(text, limit), Whitespace) ELSE text

_normalize_job_description(val) ==
  IF val.t = "none" THEN ""
  ELSE Truncated(join(" ", splitlines(strip(str(val)))),
                 MAX_JOB_DESCRIPTION_LENGTH)

\* isinstance(item, (str, int, float)); a bool is an int
IsScalar(item) == item.t \in {"str", "int", "bool"}

_safe_list(val) ==
  IF val.t = "list"
  THEN LET kept == SelectSeq(val.v, IsScalar)
       IN [i \in DOMAIN kept |-> str(kept[i])]
  ELSE IF val.t = "str" THEN <<val.v>>
  ELSE <<>>

\* the bullet marks _split_lines strips from the left of a line; the source
\* also strips the middle dot U+00B7, which the model's texts do not hold
BulletMarks == {BULLET, "-"}

CleanedParts(raw) ==
  LET parts == split_on(replace(raw, "\r", "\n"), "\n")
  IN NonEmpty([k \in DOMAIN parts |-> lstrip(strip(parts[k]), BulletMarks)])

_split_lines(values) ==
  LET raws == _safe_list(values)
  IN Concat([i \in DOMAIN raws |-> CleanedParts(raws[i])])

_collapse_summary(summary) ==
  IF summary.t = "str" THEN summary.v
  ELSE IF summary.t = "list"
  THEN join(" ", NonEmpty([i \in DOMAIN summary.v |-> strip(str(summary.v[i]))]))
  ELSE ""

PeriodOf(start_text, end_text) ==
  IF start_text # "" /\ end_text # ""
  THEN start_text \o " " \o EM_DASH \o " " \o end_text
  ELSE IF start_text # "" THEN start_text
  ELSE end_text

_format_period(start, end) ==
  PeriodOf(IF Truthy(start) THEN strip(str(start)) ELSE "",
           IF Truthy(end) THEN strip(str(end)) ELSE "Present")

\* the items of raw_entries the loops of the *_entries functions keep
DictItems(raw_entries) ==
  IF raw_entries.t = "list"
  THEN SelectSeq(raw_entries.v, LAMBDA item : item.t = "dict")
  ELSE <<>>

\* item.get(k1) or item.get(k2) or ... or default
RECURSIVE FirstTruthy(_, _, _)
FirstTruthy(item, keys, default) ==
  IF keys = <<>> THEN default
  ELSE Or(DictGet(item, Head(keys)), FirstTruthy(item, Tail(keys), default))

ItemPeriod(item) ==
  _format_period(DictGet(item, "start_date"), DictGet(item, "end_date"))

ExperienceBullets(item) ==
  FirstTruthy(item, <<"achievements", "bullets", "highlights">>, VList(<<>>))

\* [str(b).strip() for b in bullets if str(b).strip()]
StrippedBullets(bullets) ==
  LET visited == Iter(bullets)
  IN NonEmpty([i \in DOMAIN visited |-> strip(str(visited[i]))])

\* uuid.uuid4().hex[:8] is the text hex, drawn by the caller
ExperienceEntry(item, hex) ==
  VDict(<<Item("id", VStr("exp-" \o hex)),
          Item("role",
               VStr(str(FirstTruthy(item, <<"title", "role", "position">>,
                                    VStr(""))))),
          Item("company",
               VStr(str(FirstTruthy(item, <<"organization", "company",
                                            "employer">>, VStr(""))))),
          Item("period", VStr(ItemPeriod(item))),
          Item("bullets", StrList(StrippedBullets(ExperienceBullets(item))))>>)

\* the entries, or TypeError when the bullets of an item cannot be iterated
_experience_entries(raw_entries, hexes) ==
  LET items == DictItems(raw_entries)
  IN IF \E i \in DOMAIN items : ~Iterable(ExperienceBullets(items[i]))
     THEN [outcome |-> "TypeError"]
     ELSE [outcome |-> "ok",
           entries |-> [i \in DOMAIN items |->
                          ExperienceEntry(items[i], hexes[i])]]

EducationEntry(item, hex) ==
  VDict(<<Item("id", VStr("edu-" \o hex)),
          Item("school",
               VStr(str(FirstTruthy(item, <<"institution", "school">>,
                                    VStr(""))))),
          Item("degree",
               VStr(str(FirstTruthy(item, <<"degree", "program">>,
                                    VStr(""))))),
          Item("period", VStr(ItemPeriod(item)))>>)

_education_entries(raw_entries, hexes) ==
  LET items == DictItems(raw_entries)
  IN [i \in DOMAIN items |-> EducationEntry(items[i], hexes[i])]

ProjectBullets(item) ==
  _split_lines(FirstTruthy(item, <<"bullets", "highlights", "achievements",
                                   "details">>, VNone))

ProjectDescription(description_text, bullets) ==
  IF description_text = "" /\ bullets # <<>> THEN join("\n", bullets)
  ELSE description_text

ProjectEntry(item, hex) ==
  VDict(<<Item("id", VStr("proj-" \o hex)),
          Item("name",
               VStr(str(FirstTruthy(item, <<"title", "name">>, VStr(""))))),
          Item("description",
               VStr(ProjectDescription(
                      strip(str(FirstTruthy(item, <<"summary", "description">>,
                                            VStr("")))),
                      ProjectBullets(item)))),
          Item("link",
               VStr(str(FirstTruthy(item, <<"url", "link">>, VStr(""))))),
          Item("bullets", StrList(ProjectBullets(item)))>>)

_project_entries(raw_entries, hexes) ==
  LET items == DictItems(raw_entries)
  IN [i \in DOMAIN items |-> ProjectEntry(items[i], hexes[i])]

\* href.split(":", 1)[1].split("?", 1)[0].strip()
LinkTarget(href) ==
  LET rest == From(href, find(href, ":", 1) + 1)
      query == find(rest, "?", 1)
  IN strip(IF query = 0 THEN rest ELSE Upto(rest, query - 1))

\* str(link.get("url", "")).strip(); a link without .get is skipped
LinkHref(link) ==
  IF link.t = "dict" THEN strip(str(DictGetDefault(link, "url", VStr(""))))
  ELSE ""

\* the hrefs of the embedded links the loop does not skip
LinkHrefs(links) ==
  IF links.t = "list"
  THEN NonEmpty([i \in DOMAIN links.v |-> LinkHref(links.v[i])])
  ELSE <<>>

\* what the loop over the embedded links appends to emails / phones / urls
LinkTargets(hrefs, scheme) ==
  LET chosen == SelectSeq(hrefs, LAMBDA href : startswith(lower(href), scheme))
  IN NonEmpty([i \in DOMAIN chosen |-> LinkTarget(chosen[i])])

LinkUrlsOf(hrefs) ==
  SelectSeq(hrefs, LAMBDA href : /\ ~startswith(lower(href), "mailto:")
                                 /\ ~startswith(lower(href), "tel:"))

_digits_only(s) == join("", Runs(s, DigitSet))

\* the key of _dedupe: s.strip().lower(), or the digits for phones
DedupeKey(it, digits) == IF digits THEN _digits_only(it) ELSE lower(strip(it))

RECURSIVE DedupeFrom(_, _, _)
DedupeFrom(items, digits, seen) ==
  IF items = <<>> THEN <<>>
  ELSE IF DedupeKey(Head(items), digits) = ""
            \/ DedupeKey(Head(items), digits) \in seen
  THEN DedupeFrom(Tail(items), digits, seen)
  ELSE <<strip(Head(items))>>
         \o DedupeFrom(Tail(items), digits,
                       seen \cup {DedupeKey(Head(items), digits)})

_dedupe(items, digits) == DedupeFrom(items, digits, {})

\* contact.get(key) if contact else parsed.get(key)
ContactField(parsed_, key) ==
  LET contact == IF DictGet(parsed_, "contact").t = "dict"
                 THEN DictGet(parsed_, "contact") ELSE VDict(<<>>)
  IN IF Truthy(contact) THEN DictGet(contact, key) ELSE DictGet(parsed_, key)

Emails(parsed_, hrefs) ==
  _safe_list(ContactField(parsed_, "emails"))
    \o _safe_list(DictGet(parsed_, "email"))
    \o LinkTargets(hrefs, "mailto:")

Phones(parsed_, hrefs) ==
  _safe_list(ContactField(parsed_, "phones"))
    \o _safe_list(DictGet(parsed_, "phone"))
    \o _safe_list(DictGet(parsed_, "phone_number"))
    \o LinkTargets(hrefs, "tel:")

UrlsOf(parsed_, hrefs) ==
  _safe_list(ContactField(parsed_, "urls"))
    \o _safe_list(DictGet(parsed_, "links"))
    \o _safe_list(DictGet(parsed_, "profiles"))
    \o _safe_list(DictGet(parsed_, "websites"))
    \o LinkUrlsOf(hrefs)

Contact(parsed_, hrefs) ==
  VDict(<<Item("emails", StrList(_dedupe(Emails(parsed_, hrefs), FALSE))),
          Item("phones", StrList(_dedupe(Phones(parsed_, hrefs), TRUE))),
          Item("urls", StrList(_dedupe(UrlsOf(parsed_, hrefs), FALSE)))>>)

\* parsed.copy() with raw_resume_text cut to the limit
RawPayload(parsed_) ==
  LET raw_text == DictGet(parsed_, "raw_resume_text")
  IN IF raw_text.t = "str" /\ Len(raw_text.v) > MAX_JOB_DESCRIPTION_LENGTH
     THEN DictSet(parsed_, "raw_resume_text",
                  VStr(Truncated(raw_text.v, MAX_JOB_DESCRIPTION_LENGTH)))
     ELSE parsed_

\* s.replace("++", "pp")
RECURSIVE ReplacePlusPlus(_)
ReplacePlusPlus(s) ==
  LET i == find(s, "++", 1)
  IN IF i = 0 THEN s
     ELSE Upto(s, i - 1) \o "pp" \o ReplacePlusPlus(From(s, i + 2))

SkillTokens(normalized_) ==
  IF normalized_ = "" THEN {}
  ELSE {normalized_, ReplacePlusPlus(normalized_)}
         \cup Range(_tokenize_text(normalized_))

_skill_token_set(skills) ==
  IF skills.t # "list" THEN {}
  ELSE UNION {SkillTokens(lower(strip(skills.v[i].v))) :
                i \in {j \in DOMAIN skills.v : skills.v[j].t = "str"}}

\* _append of _collect_classification_fragments
RECURSIVE Fragments(_)
Fragments(val) ==
  IF val.t = "str" THEN NonEmpty(<<strip(val.v)>>)
  ELSE IF val.t = "list"
  THEN Concat([i \in DOMAIN val.v |-> Fragments(val.v[i])])
  ELSE <<>>

\* the fragments of the items of a list under the keys, item by item
ItemFragments(items, keys) ==
  LET dicts == DictItems(Or(items, VList(<<>>)))
  IN Concat([i \in DOMAIN dicts |->
               Concat([k \in DOMAIN keys |->
                         Fragments(DictGet(dicts[i], keys[k]))])])

_collect_classification_fragments(payload) ==
  Fragments(DictGet(payload, "summary"))
    \o ItemFragments(DictGet(payload, "experience"),
                     <<"role", "title", "company", "organization", "bullets",
                       "achievements">>)
    \o ItemFragments(DictGet(payload, "projects"),
                     <<"name", "title", "description", "summary", "bullets">>)
    \o Fragments(DictGet(payload, "skills"))

\* the skill tokens _infer_job_type takes from the raw payload (None is {})
JobDescriptionSkillTokens(raw_payload) ==
  IF raw_payload.t # "dict" THEN {}
  ELSE _skill_token_set(FirstTruthy(raw_payload,
                                    <<"job_description_skills", "job_skills">>,
                                    VNone))

_infer_job_type(definitions, payload) ==
  _infer_job_type_from_description(
    definitions,
    _normalize_job_description(Or(DictGet(payload, "job_description"),
                                  VStr(""))),
    JobDescriptionSkillTokens(DictGet(payload, "raw")))

\* raw_resume_text of _infer_job_type_from_resume ("" for None)
RawResumeText(raw_payload) ==
  IF raw_payload.t # "dict" THEN ""
  ELSE LET candidate == FirstTruthy(raw_payload,
                                    <<"raw_resume_text", "raw_text">>, VNone)
       IN IF candidate.t = "str" THEN candidate.v ELSE ""

FromFragments(definitions, fragments, skill_param) ==
  IF fragments = <<>>
  THEN _infer_job_type_from_description(definitions, "", skill_param)
  ELSE _infer_job_type_from_description(
         definitions, _normalize_job_description(VStr(join(" ", fragments))),
         skill_param)

\* the choice between the result for the raw text and the fragments
RawOrFragments(raw_result, definitions, payload, skill_param) ==
  IF raw_result.category_id # "general"
       \/ raw_result.confidence >= RAW_RESUME_FALLBACK_CONFIDENCE
  THEN raw_result
  ELSE FromFragments(definitions, _collect_classification_fragments(payload),
                     skill_param)

FromResume(definitions, payload, normalized_raw, skill_param) ==
  IF normalized_raw # ""
  THEN RawOrFragments(
         _infer_job_type_from_description(definitions, normalized_raw,
                                          skill_param),
         definitions, payload, skill_param)
  ELSE FromFragments(definitions, _collect_classification_fragments(payload),
                     skill_param)

_infer_job_type_from_resume(definitions, payload) ==
  FromResume(definitions, payload,
             _normalize_job_description(
               VStr(RawResumeText(DictGet(payload, "raw")))),
             _skill_token_set(DictGet(payload, "skills")))

\* a classification result held in a payload
VResult(result) == [t |-> "result", v |-> result]

WithJobTypes(definitions, payload) ==
  VDict(payload.v
          \o <<Item("job_type", VResult(_infer_job_type(definitions, payload))),
               Item("resume_job_type",
                    VResult(_infer_job_type_from_resume(definitions,
                                                        payload)))>>)

\* the payload dict literal; experience is the outcome of _experience_entries
PayloadOf(parsed_, experience, hexes) ==
  VDict(<<Item("name", Or(DictGet(parsed_, "name"), VStr(""))),
          Item("summary", VStr(_collapse_summary(DictGet(parsed_, "summary")))),
          Item("job_description",
               VStr(_normalize_job_description(
                      DictGet(parsed_, "job_description")))),
          Item("experience", VList(experience.entries)),
          Item("education",
               VList(_education_entries(DictGet(parsed_, "education"),
                                        hexes.education))),
          Item("projects",
               VList(_project_entries(DictGet(parsed_, "projects"),
                                      hexes.projects))),
          Item("skills", StrList(_safe_list(DictGet(parsed_, "skills")))),
          Item("contact",
               Contact(parsed_,
                       LinkHrefs(Or(DictGet(parsed_, "embedded_links"),
                                    VList(<<>>))))),
          Item("embedded_links",
               Or(DictGet(parsed_, "embedded_links"), VList(<<>>))),
          Item("themes",
               VDict(<<Item("selected",
                            Or(DictGet(parsed_, "theme"),
                               DictGet(THEME_OPTIONS.v[1], "id"))),
                       Item("options", THEME_OPTIONS)>>)),
          Item("raw", RawPayload(parsed_))>>)

NormalizedOrError(definitions, parsed_, experience, hexes) ==
  IF experience.outcome = "TypeError" THEN [outcome |-> "TypeError"]
  ELSE [outcome |-> "ok",
        payload |-> WithJobTypes(definitions,
                                 PayloadOf(parsed_, experience, hexes))]

\* hexes holds the uuid4 prefixes the entries draw, list by list
_normalized_payload(definitions, parsed_, hexes) ==
  NormalizedOrError(definitions, parsed_,
                    _experience_entries(DictGet(parsed_, "experience"),
                                        hexes.experience),
                    hexes)

(***************************************************************************)
(* Dates and date ranges (label_resume.py).                                *)
(***************************************************************************)
CharAt(s, i) == IF i \in 1..Len(s) THEN Char(s, i) ELSE ""

MONTH_ALIASES ==
  [jan |-> 1, january |-> 1, feb |-> 2, february |-> 2, mar |-> 3,
   march |-> 3, apr |-> 4, april |-> 4, may |-> 5, jun |-> 6, june |-> 6,
   jul |-> 7, july |-> 7, aug |-> 8, august |-> 8, sep |-> 9, sept |-> 9,
   september |-> 9, oct |-> 10, october |-> 10, nov |-> 11, november |-> 11,
   dec |-> 12, december |-> 12]

\* the words MONTH_PATTERN spells
MONTH_PATTERN ==
  {"Jan", "January", "Feb", "February", "Mar", "March", "Apr", "April",
   "May", "Jun", "June", "Jul", "July", "Aug", "August", "Sep", "Sept",
   "September", "Oct", "October", "Nov", "November", "Dec", "December"}

normalize_dashes(text) == replace(replace(text, EN_DASH, "-"), EM_DASH, "-")

\* whether the character c matches the pattern letter p under re.IGNORECASE
FoldsTo(c, p) ==
  \/ LowerChar(c) = LowerChar(p)
  \/ c = LONG_S /\ LowerChar(p) = "s"

\* whether the word matches at position i of s under re.IGNORECASE
MatchesIgnoreCase(s, i, word) ==
  /\ i + Len(word) - 1 <= Len(s)
  /\ \A k \in 1..Len(word) : FoldsTo(Char(s, i + k - 1), Char(word, k))

\* whether a match of MONTH_PATTERN can start with the character c
StartsMonth(c) == \E word \in MONTH_PATTERN : FoldsTo(c, Char(word, 1))

\* the positions where a match of MONTH_PATTERN that starts at i can end
MonthEnds(s, i) ==
  IF ~StartsMonth(CharAt(s, i)) THEN {}
  ELSE {i + Len(word) - 1 : word \in {w \in MONTH_PATTERN :
                                         MatchesIgnoreCase(s, i, w)}}

\* \s* from position i: the first position at or after i that holds no
\* whitespace
RECURSIVE AfterSpaces(_, _)
AfterSpaces(s, i) ==
  IF CharAt(s, i) \in Whitespace THEN AfterSpaces(s, i + 1) ELSE i

FourDigits(s, i) ==
  i + 3 <= Len(s) /\ \A k \in i..(i + 3) : Char(s, k) \in DigitSet

\* the positions where a match of month \s* \d{4} that starts at i can end
MonthYearEnds(s, i) ==
  {AfterSpaces(s, m + 1) + 3 :
     m \in {n \in MonthEnds(s, i) : FourDigits(s, AfterSpaces(s, n + 1))}}

\* the positions where a match of (Present | month \s* \d{4}) at i can end
EndTokenEnds(s, i) ==
  (IF MatchesIgnoreCase(s, i, "Present") THEN {i + 6} ELSE {})
    \cup MonthYearEnds(s, i)

\* the match of the rest of DATE_RANGE_PATTERN after a start token that
\* ends at a; dash is the position after the \s* that follows the token
RangeAfterStart(s, i, a, dash) ==
  IF CharAt(s, dash) \in {"-", EN_DASH, EM_DASH}
  THEN {[first |-> i, start_last |-> a,
         end_first |-> AfterSpaces(s, dash + 1), last |-> b] :
          b \in EndTokenEnds(s, AfterSpaces(s, dash + 1))}
  ELSE {}

\* the matches of DATE_RANGE_PATTERN that start at i (at most one)
DateRangeAt(s, i) ==
  UNION {RangeAfterStart(s, i, a, AfterSpaces(s, a + 1)) :
           a \in MonthYearEnds(s, i)}

\* re.search(DATE_RANGE_PATTERN, s, re.IGNORECASE): the leftmost match, as
\* a list of at most one element
DateRangeSearch(s) ==
  LET hits == {i \in 1..Len(s) : DateRangeAt(s, i) # {}}
  IN IF hits = {} THEN <<>>
     ELSE <<CHOOSE match \in
              DateRangeAt(s, CHOOSE i \in hits : \A j \in hits : i <= j) :
              TRUE>>

\* HEADER_LINE_RE.sub("", s)
RECURSIVE RemoveDateRanges(_)
RemoveDateRanges(s) ==
  LET found == DateRangeSearch(s)
  IN IF found = <<>> THEN s
     ELSE Upto(s, found[1].first - 1)
            \o RemoveDateRanges(From(s, found[1].last + 1))

\* f"{month:02d}"
TwoDigits(n) == IF n < 10 THEN "0" \o ToString(n) ELSE ToString(n)

\* the date for a token that starts with a month that ends at m
DateFor(token, m) ==
  IF lower(Upto(token, m)) \in DOMAIN MONTH_ALIASES
  THEN VStr(SubSeq(token, AfterSpaces(token, m + 1),
                   AfterSpaces(token, m + 1) + 3)
              \o "-" \o TwoDigits(MONTH_ALIASES[lower(Upto(token, m))]))
  ELSE VNone

\* parse_date_token after token = normalize_dashes(token.strip())
ParseStripped(token) ==
  IF token = "" \/ lower(token) = "present" THEN VNone
  ELSE IF MonthYearEnds(token, 1) = {} THEN VNone
  ELSE DateFor(token,
               CHOOSE m \in MonthEnds(token, 1) :
                 FourDigits(token, AfterSpaces(token, m + 1)))

parse_date_token(token) == ParseStripped(normalize_dashes(strip(token)))

\* the pair for the match of the pattern in the text
RangeOf(text, match) ==
  <<parse_date_token(SubSeq(text, match.first, match.start_last)),
    IF lower(SubSeq(text, match.end_first, match.last)) = "present"
    THEN VNone
    ELSE parse_date_token(SubSeq(text, match.end_first, match.last))>>

RangeOfSearch(text, found) ==
  IF found = <<>> THEN <<VNone, VNone>> ELSE RangeOf(text, found[1])

\* text is the argument after normalize_dashes
RangeOfNormalized(text) == RangeOfSearch(text, DateRangeSearch(text))

parse_date_range(text) == RangeOfNormalized(normalize_dashes(text))

(***************************************************************************)
(* Sections and their entries (label_resume.py).  None is VNone and a str  *)
(* s is VStr(s) where the program holds "str | None".                      *)
(***************************************************************************)
SECTION_TITLES ==
  {"summary", "professional summary", "objective", "experience",
   "work experience", "professional experience", "education",
   "project experience", "projects", "technical skills", "skills",
   "leadership", "leadership experience", "research", "research experience",
   "certifications", "awards", "publications", "activities", "volunteer",
   "volunteer experience", "interests", "achievements", "honors",
   "languages", "skills & interests", "skills and interests"}

SectionTitled(title, names) == [name \in names |-> title]

SECTION_CANONICAL ==
  SectionTitled("Summary", {"summary", "professional summary", "objective"})
    @@ SectionTitled("Work Experience",
                     {"experience", "work experience",
                      "professional experience"})
    @@ SectionTitled("Education", {"education"})
    @@ SectionTitled("Projects", {"project experience", "projects"})
    @@ SectionTitled("Skills", {"technical skills", "skills",
                                "skills & interests", "skills and interests"})
    @@ SectionTitled("Leadership", {"leadership", "leadership experience"})
    @@ SectionTitled("Research", {"research", "research experience"})
    @@ SectionTitled("Certifications", {"certifications"})
    @@ SectionTitled("Awards", {"awards"})
    @@ SectionTitled("Publications", {"publications"})
    @@ SectionTitled("Activities", {"activities"})
    @@ SectionTitled("Volunteer", {"volunteer", "volunteer experience"})
    @@ SectionTitled("Interests", {"interests"})
    @@ SectionTitled("Achievements", {"achievements"})
    @@ SectionTitled("Honors", {"honors"})
    @@ SectionTitled("Languages", {"languages"})

\* re.sub(r"[^a-zA-Z& ]+", "", text).strip().lower()
normalize_heading(text) ==
  lower(strip(join("", Runs(text, LowerSet \cup UpperSet \cup {"&", " "}))))

canonical_title(normalized_, fallback) ==
  IF normalized_ \in DOMAIN SECTION_CANONICAL
  THEN SECTION_CANONICAL[normalized_]
  ELSE IF fallback # "" THEN fallback
  ELSE "Untitled Section"

Section(title, content) == [title |-> title, content |-> content]

\* flush() of split_sections
Flushed(sections, current_title, current_lines) ==
  IF current_lines = <<>> THEN sections
  ELSE Append(sections,
              Section(current_title, strip(join("\n", current_lines))))

\* the loop of split_sections over the lines that are left, and the last
\* flush()
RECURSIVE SplitLoop(_, _, _, _)
SplitLoop(raw_lines, sections, current_title, current_lines) ==
  IF raw_lines = <<>> THEN Flushed(sections, current_title, current_lines)
  ELSE IF normalize_heading(strip(Head(raw_lines))) \in SECTION_TITLES
  THEN SplitLoop(Tail(raw_lines),
                 Flushed(sections, current_title, current_lines),
                 canonical_title(normalize_heading(strip(Head(raw_lines))),
                                 strip(Head(raw_lines))),
                 <<>>)
  ELSE IF strip(Head(raw_lines)) = "" /\ current_lines = <<>>
  THEN SplitLoop(Tail(raw_lines), sections, current_title, current_lines)
  ELSE SplitLoop(Tail(raw_lines), sections, current_title,
                 Append(current_lines, Head(raw_lines)))

split_sections(raw_text) == SplitLoop(splitlines(raw_text), <<>>, "Header", <<>>)

\* whether the pattern (\S)\b(MONTH_PATTERN) of ensure_space_before_months
\* matches with its month at position j: the character before is neither
\* whitespace nor a word character, and a month starts at j
MonthAfterNonSpace(text, j) ==
  /\ j > 1
  /\ Char(text, j - 1) \notin Whitespace \cup WordChars
  /\ MonthEnds(text, j) # {}

RECURSIVE SpacedFrom(_, _)
SpacedFrom(text, j) ==
  IF j > Len(text) THEN ""
  ELSE (IF MonthAfterNonSpace(text, j) THEN " " ELSE "")
         \o Char(text, j) \o SpacedFrom(text, j + 1)

ensure_space_before_months(text) == SpacedFrom(text, 1)

\* re.sub(r"\s{2,}", " ", s) from position i
RECURSIVE CollapsedFrom(_, _)
CollapsedFrom(s, i) ==
  IF i > Len(s) THEN ""
  ELSE IF AfterSpaces(s, i) >= i + 2
  THEN " " \o CollapsedFrom(s, AfterSpaces(s, i))
  ELSE Char(s, i) \o CollapsedFrom(s, i + 1)

CollapseSpaces(s) == CollapsedFrom(s, 1)

_clean_line(line) ==
  strip(CollapseSpaces(
          ensure_space_before_months(normalize_dashes(strip(line)))))

\* [ln for ln in (_clean_line(line) for line in text.splitlines()) if ln]
CleanLines(text) ==
  LET raw_lines == splitlines(text)
  IN NonEmpty([i \in DOMAIN raw_lines |-> _clean_line(raw_lines[i])])

\* s or None
OrNone(s) == IF s = "" THEN VNone ELSE VStr(s)

\* text.split(sep, 1) at the first occurrence of sep, both parts stripped
SplitStripped(text, sep) ==
  <<OrNone(strip(Upto(text, find(text, sep, 1) - 1))),
    OrNone(strip(From(text, find(text, sep, 1) + Len(sep))))>>

\* s.replace(old, "")
RECURSIVE Without(_, _)
Without(s, old) ==
  LET i == find(s, old, 1)
  IN IF i = 0 THEN s
     ELSE Upto(s, i - 1) \o Without(From(s, i + Len(old)), old)

split_company_location(text) ==
  IF find(text, " - ", 1) > 0 THEN SplitStripped(text, " - ")
  ELSE IF find(text, ",", 1) > 0 THEN SplitStripped(text, ",")
  ELSE IF endswith(lower(strip(text)), " remote")
  THEN <<VStr(lstrip(rstrip(Without(text, "Remote"), {" ", ","}),
                     {" ", ","})),
         VStr("Remote")>>
  ELSE <<OrNone(strip(text)), VNone>>


\* HEADER_LINE_RE.search(line) is not None
HasDateRange(line) == DateRangeSearch(line) # <<>>

\* HEADER_LINE_RE.sub("", line).strip(" -")
WithoutDates(line) ==
  lstrip(rstrip(RemoveDateRanges(line), {" ", "-"}), {" ", "-"})

is_bullet(clean) == startswith(clean, BULLET) \/ startswith(clean, "-")

\* clean of the loop of _finalize_entry
CleanBody(raw) ==
  IF is_bullet(lstrip(raw, Whitespace))
  THEN lstrip(lstrip(raw, Whitespace), {BULLET, "-", " ", "\t"})
  ELSE lstrip(raw, Whitespace)

\* the positions of the body lines that are no bullets
PlainLines(body_lines) ==
  {i \in DOMAIN body_lines : ~is_bullet(lstrip(body_lines[i], Whitespace))}

\* company_line after the loop: the first body line that is no bullet
CompanyLine(body_lines) ==
  IF PlainLines(body_lines) = {} THEN VNone
  ELSE VStr(CleanBody(body_lines[
              CHOOSE i \in PlainLines(body_lines) :
                \A j \in PlainLines(body_lines) : i <= j]))

\* achievements after the loop: every other body line
RawAchievements(body_lines) ==
  LET company == IF PlainLines(body_lines) = {} THEN 0
                 ELSE CHOOSE i \in PlainLines(body_lines) :
                        \A j \in PlainLines(body_lines) : i <= j
      kept == SelectSeq([i \in DOMAIN body_lines |-> i],
                        LAMBDA i : i # company)
  IN [k \in DOMAIN kept |-> CleanBody(body_lines[kept[k]])]

Achievements(lines) ==
  LET kept == SelectSeq(lines, LAMBDA line : strip(line) # "")
  IN [k \in DOMAIN kept |-> strip(CollapseSpaces(kept[k]))]

CompanyAndLocation(company_line) ==
  IF Truthy(company_line) THEN split_company_location(company_line.v)
  ELSE <<VNone, VNone>>

ExperienceRecord(header_line, body_lines, dates, company) ==
  [title |-> OrNone(WithoutDates(header_line)),
   organization |-> company[1],
   location |-> company[2],
   start_date |-> dates[1],
   end_date |-> dates[2],
   achievements |-> Achievements(RawAchievements(body_lines)),
   raw |-> join("\n", <<header_line>> \o body_lines)]

\* the entry as a list: empty where the source returns None; header_line is
\* the empty list for None
_finalize_entry(header_line, body_lines) ==
  IF header_line = <<>> \/ header_line = <<"">> THEN <<>>
  ELSE <<ExperienceRecord(header_line[1], body_lines,
                          parse_date_range(header_line[1]),
                          CompanyAndLocation(CompanyLine(body_lines)))>>

looks_like_header(stripped) ==
  HasDateRange(stripped) /\ ~startswith(stripped, BULLET)

\* the loop of parse_experience_section over the lines that are left, and
\* the final entry
RECURSIVE ExperienceLoop(_, _, _, _)
ExperienceLoop(lines, entries, current_header, current_body) ==
  IF lines = <<>>
  THEN entries \o _finalize_entry(current_header, current_body)
  ELSE IF looks_like_header(lstrip(Head(lines), Whitespace))
  THEN ExperienceLoop(
         Tail(lines),
         IF (current_header # <<>> /\ current_header # <<"">>)
              \/ current_body # <<>>
         THEN entries \o _finalize_entry(current_header, current_body)
         ELSE entries,
         <<lstrip(Head(lines), Whitespace)>>, <<>>)
  ELSE IF current_header = <<>>
  THEN ExperienceLoop(Tail(lines), entries,
                      <<lstrip(Head(lines), Whitespace)>>, current_body)
  ELSE ExperienceLoop(Tail(lines), entries, current_header,
                      Append(current_body, Head(lines)))

parse_experience_section(text) ==
  ExperienceLoop(CleanLines(text), <<>>, <<>>, <<>>)

\* the blocks of parse_education_section
RECURSIVE Blocks(_, _, _)
Blocks(lines, blocks, current) ==
  IF lines = <<>>
  THEN IF current # <<>> THEN Append(blocks, current) ELSE blocks
  ELSE IF HasDateRange(Head(lines)) /\ current # <<>>
  THEN Blocks(Tail(lines), Append(blocks, current), <<Head(lines)>>)
  ELSE Blocks(Tail(lines), blocks, Append(current, Head(lines)))

InstitutionAndLocation(institution_raw) ==
  IF institution_raw # "" THEN split_company_location(institution_raw)
  ELSE <<VNone, VNone>>

EducationRecord(block, dates, institution) ==
  [institution |-> institution[1],
   degree |-> IF Len(block) > 1 THEN VStr(block[2]) ELSE VNone,
   location |-> institution[2],
   start_date |-> dates[1],
   end_date |-> dates[2],
   notes |-> SubSeq(block, 3, Len(block)),
   raw |-> join("\n", block)]

EducationOfBlock(block) ==
  EducationRecord(block, parse_date_range(block[1]),
                  InstitutionAndLocation(WithoutDates(block[1])))

parse_education_section(text) ==
  LET blocks == Blocks(CleanLines(text), <<>>, <<>>)
  IN [k \in DOMAIN blocks |-> EducationOfBlock(blocks[k])]

(***************************************************************************)
(* Text and link annotations of a PDF (extract.py).  A page is a record of *)
(* its text and of its "/Annots" entry: VNone, or the list of its          *)
(* annotations.  An annotation is what annotation.get_object() does with   *)
(* it: it raises, it returns the null object, or it returns a dictionary   *)
(* with the entries Subtype, A, URI, Contents and T (VNone where the       *)
(* dictionary has no such entry).                                          *)
(***************************************************************************)
Resolvable(annotation) == annotation.resolves = "dict"

\* uri of the loop of _extract_links_from_page
UriOf(annot_obj) ==
  IF annot_obj.A.t # "none" /\ annot_obj.A.S = "/URI" THEN annot_obj.A.URI
  ELSE annot_obj.URI

\* annot_obj.get("/Contents") or annot_obj.get("/T")
LabelOf(annot_obj) == Or(annot_obj.Contents, annot_obj.T)

\* the entries one annotation adds to links: none or one
LinksOfAnnotation(annot_obj, page_number) ==
  IF annot_obj.Subtype # "/Link" THEN <<>>
  ELSE IF ~Truthy(UriOf(annot_obj)) THEN <<>>
  ELSE <<[url |-> str(UriOf(annot_obj)),
          page |-> page_number,
          label |-> IF Truthy(LabelOf(annot_obj))
                    THEN str(LabelOf(annot_obj)) ELSE ""]>>

\* whether _extract_links_from_page raises: get_object() raises for an
\* annotation, or returns the null object, which has no get()
PageRaises(page) ==
  /\ Truthy(page.Annots)
  /\ \E i \in DOMAIN page.Annots.v : ~Resolvable(page.Annots.v[i])

\* the list _extract_links_from_page returns when it does not raise
_extract_links_from_page(page, page_number) ==
  IF ~Truthy(page.Annots) THEN <<>>
  ELSE Concat([i \in DOMAIN page.Annots.v |->
                 LinksOfAnnotation(page.Annots.v[i], page_number)])

\* the links whose (url, page) no earlier link has
_deduplicate_links(links) ==
  LET unique == SelectSeq([i \in DOMAIN links |-> i],
                          LAMBDA i : ~\E j \in 1..(i - 1) :
                                        /\ links[j].url = links[i].url
                                        /\ links[j].page = links[i].page)
  IN [k \in DOMAIN unique |-> links[unique[k]]]

\* the piece of text a page gives
PieceOf(page, page_number) ==
  IF strip(page.text) = ""
  THEN "\n[Page " \o ToString(page_number) \o " had no extractable text]\n"
  ELSE page.text

extract_text_and_links(pages) ==
  IF \E n \in DOMAIN pages : PageRaises(pages[n])
  THEN [outcome |-> "raises"]
  ELSE [outcome |-> "ok",
        text |-> join("\n", [n \in DOMAIN pages |-> PieceOf(pages[n], n)]),
        links |-> _deduplicate_links(
                    Concat([n \in DOMAIN pages |->
                              _extract_links_from_page(pages[n], n)]))]

(***************************************************************************)
(* The keyword lookups of a classification run and the pattern cache       *)
(* (backend/app.py).  The cache maps a normalized keyword to its compiled  *)
(* pattern, which is the phrase and whether an optional s follows it.      *)
(***************************************************************************)
\* re.compile(rf"\b{escaped}\b", re.IGNORECASE) of _keyword_pattern
CompiledPattern(normalized) ==
  [phrase |-> normalized, plural |-> ~endswith(normalized, "s")]

\* whether the loop over skill_keywords reaches _keyword_in_text for the
\* skill keyword
SkillKeywordLookedUp(skill_keyword, normalized_skill_tokens) ==
  LET normalized == lower(strip(skill_keyword))
  IN /\ normalized # ""
     /\ ~ /\ normalized_skill_tokens # {}
          /\ \/ normalized \in normalized_skill_tokens
             \/ \E token \in Range(_tokenize_text(normalized)) :
                  token \in normalized_skill_tokens

\* the keywords the loop body for one definition passes to _keyword_in_text,
\* in order
LookupsOf(definition, normalized_skill_tokens) ==
  definition.keywords
    \o SelectSeq(definition.skill_keywords,
                 LAMBDA k : SkillKeywordLookedUp(k, normalized_skill_tokens))

\* the keywords _infer_job_type_from_description passes to _keyword_in_text,
\* in order; clean is the description with its whitespace collapsed
Lookups(definitions, clean, normalized_skill_tokens) ==
  IF clean = "" /\ normalized_skill_tokens = {} THEN <<>>
  ELSE IF _tokenize_text(clean) = <<>> /\ normalized_skill_tokens = {}
  THEN <<>>
  ELSE Concat([i \in DOMAIN definitions |->
                 LookupsOf(definitions[i], normalized_skill_tokens)])

\* whether _keyword_in_text(keyword, text) reaches _KEYWORD_PATTERN_CACHE
ReachesCache(keyword, text) ==
  keyword # "" /\ text # "" /\ NormalizeKeyword(keyword) # ""

(***************************************************************************)
(* Portfolio writes and reads (backend/app.py).  The storage of the PDF is *)
(* disabled, so no storage metadata is written.                            *)
(***************************************************************************)
HasKey(d, key) == \E i \in DOMAIN d.v : d.v[i].key = key

\* del d[key] on a copy
DictDel(d, key) == VDict(SelectSeq(d.v, LAMBDA item : item.key # key))

\* whether payload.setdefault(key, {}) gives something that is no dict, on
\* which the next .get or .setdefault raises AttributeError
NoDictAt(payload, key) ==
  HasKey(payload, key) /\ DictGet(payload, key).t # "dict"

_ensure_theme_structure(payload) ==
  LET themes == DictGetDefault(payload, "themes", VDict(<<>>))
      options == DictGet(themes, "options")
      with_options ==
        DictSet(themes, "options",
                IF options.t # "list" \/ options.v = <<>> THEN THEME_OPTIONS
                ELSE options)
  IN DictSet(payload, "themes",
             IF ~Truthy(DictGet(with_options, "selected"))
             THEN DictSet(with_options, "selected",
                          DictGet(THEME_OPTIONS.v[1], "id"))
             ELSE with_options)

\* dict.setdefault(key, val) on a copy
SetDefaultItem(d, key, val) == IF HasKey(d, key) THEN d ELSE DictSet(d, key, val)

_enrich_with_metadata(data, resume_id, portfolio_id) ==
  DictSet(data, "meta",
          SetDefaultItem(
            SetDefaultItem(
              DictSet(DictSet(DictGetDefault(data, "meta", VDict(<<>>)),
                              "resume_id", VStr(resume_id)),
                      "portfolio_id", VStr(portfolio_id)),
              "status", VStr("draft")),
            "visibility", VStr("private")))

\* the row _persist_resume adds for the normalized payload
PersistedPortfolio(normalized_, resume_id, portfolio_id) ==
  LET normalized_copy ==
        _ensure_theme_structure(
          _enrich_with_metadata(normalized_, resume_id, portfolio_id))
  IN [id |-> portfolio_id,
      resume_id |-> resume_id,
      slug |-> VNone,
      status |-> "draft",
      visibility |-> "private",
      published_at |-> VNone,
      theme |-> Or(DictGet(DictGet(normalized_copy, "themes"), "selected"),
                   DictGet(THEME_OPTIONS.v[1], "id")).v,
      content |-> normalized_copy]

\* the slug of the row after update_portfolio
UpdatedSlug(row, slug) ==
  IF slug.t = "none" THEN row.slug
  ELSE IF strip(slug.v) # "" THEN VStr(strip(slug.v))
  ELSE VNone

\* published_at when every update with status 'published' takes the time anew
UpdatedPublishedAtAnew(row, status, now) ==
  IF status.t = "none" THEN row.published_at
  ELSE IF status.v = "published" THEN now
  ELSE VNone

\* published_at after update_portfolio; now is the time of the update
UpdatedPublishedAt(row, status, now) ==
  IF status.t = "none" THEN row.published_at
  ELSE IF status.v = "published" THEN Or(row.published_at, now)
  ELSE VNone

\* the row after the slug, visibility and status of the request are applied
Requested(row, request, now) ==
  [row EXCEPT
     !.slug = UpdatedSlug(row, request.slug),
     !.visibility = IF request.visibility.t = "none" THEN @
                    ELSE request.visibility.v,
     !.status = IF request.status.t = "none" THEN @ ELSE request.status.v,
     !.published_at = UpdatedPublishedAt(row, request.status, now)]

\* meta of update_portfolio for the row
UpdatedMeta(meta, row) ==
  LET filled ==
        DictSet(
          DictSet(
            DictSet(SetDefaultItem(meta, "resume_id", VStr(row.resume_id)),
                    "portfolio_id", VStr(row.id)),
            "status", VStr(row.status)),
          "visibility", VStr(row.visibility))
  IN IF Truthy(row.slug) THEN DictSet(filled, "slug", row.slug)
     ELSE DictDel(filled, "slug")

\* updated_content of update_portfolio; themed is the data after
\* _ensure_theme_structure
UpdatedContent(themed, row) ==
  DictSet(themed, "meta",
          UpdatedMeta(DictGetDefault(themed, "meta", VDict(<<>>)), row))

\* whether another row holds the slug the request asks for
SlugConflict(rows, row, slug) ==
  /\ slug.t # "none"
  /\ strip(slug.v) # ""
  /\ \E i \in DOMAIN rows :
       rows[i].slug = VStr(strip(slug.v)) /\ rows[i].id # row.id

\* whether update_portfolio raises on the data before anything is committed
UpdateRaises(data) ==
  \/ NoDictAt(data, "themes")
  \/ NoDictAt(data, "meta")

\* the row update_portfolio commits
UpdatedPortfolio(row, request, now) ==
  LET requested == Requested(row, request, now)
      updated_content ==
        UpdatedContent(_ensure_theme_structure(request.data), requested)
      theme_choice == DictGet(DictGet(updated_content, "themes"), "selected")
  IN [requested EXCEPT
        !.theme = IF Truthy(theme_choice) THEN theme_choice.v ELSE @,
        !.content = updated_content]

\* whether the loops of _collect_classification_fragments raise TypeError: a
\* truthy value that cannot be iterated stands where a list is expected
FragmentsRaise(payload) ==
  \E key \in {"experience", "projects"} :
    Truthy(DictGet(payload, key)) /\ ~Iterable(DictGet(payload, key))

\* whether _infer_job_type_from_resume, with the result for the raw text
\* (normalized_raw is "" when there is none), goes on to the fragments
ReachesFragments(normalized_raw, raw_result) ==
  \/ normalized_raw = ""
  \/ /\ raw_result.category_id = "general"
     /\ raw_result.confidence < RAW_RESUME_FALLBACK_CONFIDENCE

\* whether _infer_job_type_from_resume raises on the payload
ResumeJobTypeRaises(definitions, payload) ==
  /\ FragmentsRaise(payload)
  /\ ReachesFragments(
       _normalize_job_description(
         VStr(RawResumeText(DictGet(payload, "raw")))),
       _infer_job_type_from_description(
         definitions,
         _normalize_job_description(
           VStr(RawResumeText(DictGet(payload, "raw")))),
         _skill_token_set(DictGet(payload, "skills"))))

\* content after the try block of the reads: an exception ends the block and
\* is swallowed
Refreshed(definitions, content) ==
  IF ResumeJobTypeRaises(definitions, content)
  THEN DictSet(content, "job_type",
               VResult(_infer_job_type(definitions, content)))
  ELSE DictSet(DictSet(content, "job_type",
                       VResult(_infer_job_type(definitions, content))),
               "resume_job_type",
               VResult(_infer_job_type_from_resume(definitions, content)))

\* the response of a read for the rows it selected (at most one)
ReadResponse(endpoint, definitions, selected) ==
  IF selected = <<>> THEN [endpoint |-> endpoint, status |-> 404]
  ELSE [endpoint |-> endpoint, status |-> 200,
        data |-> Refreshed(definitions, selected[1].content)]

read_portfolio(definitions, rows, portfolio_id) ==
  ReadResponse("read_portfolio", definitions,
               SelectSeq(rows, LAMBDA row : row.id = portfolio_id))

read_portfolio_by_slug(definitions, rows, slug) ==
  ReadResponse("read_portfolio_by_slug", definitions,
               SelectSeq(rows, LAMBDA row : /\ row.slug = VStr(slug)
                                            /\ row.status = "published"
                                            /\ row.visibility # "private"))

read_portfolio_draft_preview(definitions, rows, slug, portfolio_id) ==
  ReadResponse("read_portfolio_draft_preview", definitions,
               SelectSeq(rows, LAMBDA row : /\ row.slug = VStr(slug)
                                            /\ row.id = portfolio_id))

(***************************************************************************)
(* Objects and references.  A list, a dict and a classification result are *)
(* objects of the heap: a value holds them by reference, and two values    *)
(* may hold the same object.  Strings, numbers, booleans and None cannot   *)
(* be changed and are held as they are.  The heap is the sequence of its   *)
(* objects; the address of an object is its index.                         *)
(***************************************************************************)
Ref(a) == [t |-> "ref", a |-> a]

\* the values of the items of a dict, in order
ItemValues(items) == [i \in DOMAIN items |-> items[i].val]

\* the object of a list or a dict whose elements are stored as kids
ListObject(kids) == [t |-> "list", v |-> kids]
DictObject(items, kids) ==
  [t |-> "dict", v |-> [i \in DOMAIN items |-> Item(items[i].key, kids[i])]]

\* the heap with one more object, and the reference to it
Allocated(h, object) == [h |-> Append(h, object), r |-> Ref(Len(h) + 1)]

\* what a list or a dict holds, in order
Kids(val) == IF val.t = "dict" THEN ItemValues(val.v) ELSE val.v

\* the objects a value is built from, in the order they are created: those
\* of what it holds and then the object itself, which gets the last address;
\* base is the number of objects created before
RECURSIVE Objects(_, _)
Size(val) == Len(Objects(val, 0))

\* the number of objects created before those of the i-th of the values
BaseOf(vals, i, base) ==
  base + Len(Concat([j \in 1..(i - 1) |-> Objects(vals[j], 0)]))

\* what holds the i-th of the values once it is stored
KidRef(vals, i, base) ==
  IF Size(vals[i]) = 0 THEN vals[i]
  ELSE Ref(BaseOf(vals, i, base) + Size(vals[i]))

KidRefs(vals, base) == [i \in DOMAIN vals |-> KidRef(vals, i, base)]

KidObjects(vals, base) ==
  Concat([i \in DOMAIN vals |-> Objects(vals[i], BaseOf(vals, i, base))])

Objects(val, base) ==
  IF val.t = "list"
  THEN Append(KidObjects(val.v, base), ListObject(KidRefs(val.v, base)))
  ELSE IF val.t = "dict"
  THEN Append(KidObjects(Kids(val), base),
              DictObject(val.v, KidRefs(Kids(val), base)))
  ELSE IF val.t = "result" THEN <<val>>
  ELSE <<>>

\* the heap after the values are built from new objects, and what holds them
StoreAll(h, vals) ==
  [h |-> h \o KidObjects(vals, Len(h)), rs |-> KidRefs(vals, Len(h))]

\* the heap after the value is built from new objects, and what holds it
Store(h, val) ==
  [h |-> h \o Objects(val, Len(h)), r |-> KidRef(<<val>>, 1, Len(h))]

\* the value a reference, or an immutable value, stands for
RECURSIVE Load(_, _)
LoadObject(h, object) ==
  IF object.t = "list"
  THEN VList([i \in DOMAIN object.v |-> Load(h, object.v[i])])
  ELSE IF object.t = "dict"
  THEN VDict([i \in DOMAIN object.v |->
                Item(object.v[i].key, Load(h, object.v[i].val))])
  ELSE object

Load(h, r) == IF r.t = "ref" THEN LoadObject(h, h[r.a]) ELSE r

\* what an object holds
Held(object) ==
  IF object.t = "list" THEN Range(object.v)
  ELSE IF object.t = "dict" THEN Range(ItemValues(object.v))
  ELSE {}

\* the addresses of the objects reached from r
RECURSIVE Reach(_, _)
Reach(h, r) ==
  IF r.t # "ref" THEN {}
  ELSE {r.a} \cup UNION {Reach(h, kid) : kid \in Held(h[r.a])}

\* what the dict at address a holds under the key (None when it has none)
HeldUnder(h, a, key) ==
  IF \E i \in DOMAIN h[a].v : h[a].v[i].key = key
  THEN h[a].v[CHOOSE i \in DOMAIN h[a].v : h[a].v[i].key = key].val
  ELSE VNone

\* the heap after d[key] = r on the dict at address a, which has the key
WithItem(object, key, r) ==
  DictObject(object.v,
             [i \in DOMAIN object.v |->
                IF object.v[i].key = key THEN r ELSE object.v[i].val])

Assigned(h, a, key, r) == [h EXCEPT ![a] = WithItem(h[a], key, r)]

\* parsed.copy() and the cut of its raw_resume_text: a new dict that holds
\* what the dict at address a holds, raw_text being the text kept
RawPayloadObject(h, a, raw_text) == WithItem(h[a], "raw_resume_text", raw_text)

\* the payload _normalized_payload returns for the dict at address a, on the
\* heap: its raw is the copy of that dict, its embedded_links is the list
\* the dict holds (when that is not empty), and all else is new.  stored is
\* the payload built from new objects; the two items are then assigned
WithRawAndLinks(stored, h, a, payload) ==
  LET raw == Allocated(stored.h,
                       RawPayloadObject(h, a,
                                        DictGetDefault(DictGet(payload, "raw"),
                                                       "raw_resume_text",
                                                       VNone)))
      top == stored.r.a
  IN [h |-> Assigned(
              Assigned(raw.h, top, "raw", raw.r),
              top, "embedded_links",
              IF Truthy(Load(h, HeldUnder(h, a, "embedded_links")))
              THEN HeldUnder(h, a, "embedded_links")
              ELSE HeldUnder(raw.h, top, "embedded_links")),
      r |-> stored.r]

StoreNormalized(h, a, payload) ==
  WithRawAndLinks(Store(h, payload), h, a, payload)

\* the payload as _build_resume_text reads it
FitEntries(entries) ==
  [i \in DOMAIN entries.v |->
     [key \in {entries.v[i].v[k].key : k \in DOMAIN entries.v[i].v} |->
        LET held == DictGet(entries.v[i], key)
        IN IF held.t = "list" THEN [j \in DOMAIN held.v |-> held.v[j].v]
           ELSE held.v]]

FitPayload(payload) ==
  [summary |-> DictGet(payload, "summary").v,
   experience |-> FitEntries(DictGet(payload, "experience")),
   projects |-> FitEntries(DictGet(payload, "projects")),
   skills |-> [i \in DOMAIN DictGet(payload, "skills").v |->
                 DictGet(payload, "skills").v[i].v]]

(***************************************************************************)
(* The fit endpoint (backend/app.py).  An exception that leaves the        *)
(* endpoint is answered by the server with status 500; it is recorded in   *)
(* unhandled.                                                              *)
(***************************************************************************)
Handled(status, data) == [status |-> status, unhandled |-> "", data |-> data]
Unhandled(error) == [status |-> 500, unhandled |-> error, data |-> None]

\* resume.normalized_payload or resume.parsed_payload or {}
PayloadOfResume(resume) ==
  IF resume.normalized_payload # EmptyDict THEN resume.normalized_payload
  ELSE resume.parsed_payload

\* normalized_payload.get("job_description")
PayloadJobDescription(payload) ==
  IF "job_description" \in DOMAIN payload THEN payload.job_description
  ELSE VNone

\* job_description_source of evaluate_resume_fit
JobDescriptionSource(resume) ==
  IF Truthy(resume.job_description) THEN resume.job_description.v
  ELSE _normalize_job_description(
         PayloadJobDescription(PayloadOfResume(resume)))

\* the response for the fit the scorer returned or the error it raised
FitResponse(result) ==
  IF result.outcome = "ValueError" THEN Unhandled("ValueError")
  ELSE Handled(200, result)

\* evaluate_resume_fit for the rows the session found (at most one);
\* declared tells whether the mapped class ResumeDocument has the attribute
\* job_description the endpoint reads
evaluate_resume_fit(found, declared, half_up) ==
  IF found = <<>> THEN Handled(404, None)
  ELSE IF ~declared THEN Unhandled("AttributeError")
  ELSE IF JobDescriptionSource(found[1]) = "" THEN Handled(400, None)
  ELSE FitResponse(_score_resume_fit(PayloadOfResume(found[1]),
                                     JobDescriptionSource(found[1]),
                                     half_up))

(***************************************************************************)
(* The two tables and the sessions of update_portfolio (backend/app.py,    *)
(* backend/models.py, backend/storage.py).  A session holds the rows as it *)
(* loaded them and as the handler changed them; its commit writes the      *)
(* attributes whose value differs from the loaded one.                     *)
(***************************************************************************)
DEFAULT_SIGNED_URL_TTL == 3600

\* storage.UploadedAsset
UploadedAsset(bucket, path, signed_url) ==
  [bucket |-> bucket, path |-> path, signed_url |-> signed_url]

\* dict.pop(key, None) on a copy
DictPop(d, key) == DictDel(d, key)

\* storage_meta of _apply_storage_metadata
StorageMeta(storage_meta, bucket, path, signed_url, uploaded_at) ==
  LET located ==
        DictSet(DictSet(DictSet(storage_meta, "provider", VStr("supabase")),
                        "bucket", bucket),
                "path", path)
      timed ==
        IF uploaded_at.t # "none"
        THEN DictSet(located, "uploaded_at", uploaded_at)
        ELSE DictPop(located, "uploaded_at")
  IN IF Truthy(signed_url)
     THEN DictSet(DictSet(timed, "signed_url", signed_url),
                  "expires_in", VInt(DEFAULT_SIGNED_URL_TTL))
     ELSE DictPop(DictPop(timed, "signed_url"), "expires_in")

_apply_storage_metadata(payload, bucket, path, signed_url, uploaded_at) ==
  LET meta == DictGetDefault(payload, "meta", VDict(<<>>))
  IN DictSet(payload, "meta",
             DictSet(meta, "storage",
                     StorageMeta(DictGetDefault(meta, "storage", VDict(<<>>)),
                                 bucket, path, signed_url, uploaded_at)))

\* whether _apply_storage_metadata raises: meta or meta.storage is no dict
StorageMetadataRaises(payload) ==
  \/ NoDictAt(payload, "meta")
  \/ NoDictAt(DictGetDefault(payload, "meta", VDict(<<>>)), "storage")

\* normalized_copy of _persist_resume; storage_result is a list of at most
\* one UploadedAsset
NormalizedCopy(normalized_, resume_id, portfolio_id, storage_result,
               uploaded_at) ==
  LET themed ==
        _ensure_theme_structure(
          _enrich_with_metadata(normalized_, resume_id, portfolio_id))
  IN IF storage_result = <<>> THEN themed
     ELSE _apply_storage_metadata(themed, VStr(storage_result[1].bucket),
                                  VStr(storage_result[1].path),
                                  storage_result[1].signed_url, uploaded_at)

\* resume_record of _persist_resume
ResumeRecord(normalized_copy, resume_id, storage_result, uploaded_at) ==
  [id |-> resume_id,
   storage_bucket |-> IF storage_result = <<>> THEN VNone
                      ELSE VStr(storage_result[1].bucket),
   storage_path |-> IF storage_result = <<>> THEN VNone
                    ELSE VStr(storage_result[1].path),
   storage_uploaded_at |-> IF storage_result = <<>> THEN VNone
                           ELSE uploaded_at,
   normalized_payload |-> normalized_copy]

\* portfolio_record of _persist_resume
PortfolioRecord(normalized_copy, resume_id, portfolio_id) ==
  [id |-> portfolio_id,
   resume_id |-> resume_id,
   slug |-> VNone,
   status |-> "draft",
   visibility |-> "private",
   published_at |-> VNone,
   theme |-> Or(DictGet(DictGetDefault(normalized_copy, "themes",
                                       VDict(<<>>)), "selected"),
                DictGet(THEME_OPTIONS.v[1], "id")).v,
   content |-> normalized_copy]

\* session.get: the rows with the id, a list of at most one
RowsWithId(rows, id) == SelectSeq(rows, LAMBDA row : row.id = id)

\* _apply_storage_metadata_from_resume; signed_url is what
\* storage.create_signed_url gave, None when it raised or storage is off
WithResumeStorage(resume, payload, signed_url) ==
  IF resume = <<>> \/ ~Truthy(resume[1].storage_bucket)
       \/ ~Truthy(resume[1].storage_path)
  THEN payload
  ELSE _apply_storage_metadata(payload, resume[1].storage_bucket,
                               resume[1].storage_path, signed_url,
                               resume[1].storage_uploaded_at)

\* whether _apply_storage_metadata_from_resume raises on the payload
ResumeStorageRaises(resume, payload) ==
  /\ resume # <<>>
  /\ Truthy(resume[1].storage_bucket)
  /\ Truthy(resume[1].storage_path)
  /\ StorageMetadataRaises(payload)

\* the attributes of a PortfolioDraft the handlers assign
PortfolioColumns ==
  {"slug", "status", "visibility", "published_at", "theme", "content"}

\* the row after the flush of a session: an UPDATE sets the attributes whose
\* value in the session differs from the loaded one
FlushedRow(stored, loaded, changed, columns) ==
  [column \in DOMAIN stored |->
     IF column \in columns /\ changed[column] # loaded[column]
     THEN changed[column]
     ELSE stored[column]]

\* the table after the flush of the row
FlushedRows(rows, loaded, changed, columns) ==
  [i \in DOMAIN rows |->
     IF rows[i].id = loaded.id
     THEN FlushedRow(rows[i], loaded, changed, columns)
     ELSE rows[i]]

\* whether the flush breaks the unique constraint on portfolio_drafts.slug
UniqueViolation(rows, loaded, changed) ==
  /\ changed.slug # loaded.slug
  /\ changed.slug # VNone
  /\ \E i \in DOMAIN rows :
       rows[i].id # loaded.id /\ rows[i].slug = changed.slug

(***************************************************************************)
(* The upload of a resume (backend/app.py, backend/storage.py): the        *)
(* temporary file of _read_upload, the attempts of _upload_sync and the    *)
(* commit of _persist_resume.  Delays are in milliseconds.                 *)
(***************************************************************************)
MAX_FILE_SIZE_BYTES == 8 * 1024 * 1024

\* the status _read_upload raises for the content type and the length of the
\* contents before it makes the temporary file; 0 when it raises nothing
_read_upload(content_type, size) ==
  IF content_type \notin {"application/pdf", "application/octet-stream"}
  THEN 415
  ELSE IF size = 0 THEN 400
  ELSE IF size > MAX_FILE_SIZE_BYTES THEN 413
  ELSE 0

\* retries and delay of _upload_sync
UploadRetries == 3
UploadDelay == 500

\* the delay when it is not doubled
NextDelayKept(delay) == delay

\* the delay after a sleep of _upload_sync
NextDelay(delay) == delay * 2

_should_reinit(status_code) == status_code \in {401, 403, 404}

\* whether the attempt of _upload_sync with the outcome raises: no client,
\* an exception of the upload call, or a response with a status of 400 or more
AttemptRaises(outcome) ==
  \/ outcome.kind \in {"no_client", "exception"}
  \/ outcome.kind = "response" /\ outcome.status_code >= 400

\* what the except clause of _upload_sync does after a failed attempt
AfterFailure(attempt) == IF attempt < UploadRetries THEN "sleep" ELSE "raise"

(***************************************************************************)
(* Idle values of the variables a specification does not use.              *)
(***************************************************************************)
TokIdle == value = "" /\ tokens = <<>>
ClsIdle ==
  /\ taxonomy = <<>>
  /\ description = ""
  /\ skill_tokens = {}
  /\ classification = [category_id |-> "none"]
FitIdle ==
  /\ normalized_payload = [kind |-> "none"]
  /\ job_description = ""
  /\ fit = [outcome |-> "none"]
UrlIdle == url = "" /\ canonical = <<>>
MrgIdle ==
  /\ text_found = <<>>
  /\ text_emails = <<>>
  /\ embedded_links = <<>>
  /\ contact_links = <<>>
NrmIdle == llm_parsed = [t |-> "none"] /\ norm_result = [outcome |-> "none"]
SecIdle ==
  /\ resume_text = ""
  /\ resume_sections = <<>>
  /\ experience_entries = <<>>
  /\ education_entries = <<>>
DateIdle == date_text = "" /\ date_range = <<>>
EurlIdle == contact_block = "" /\ contact_emails = <<>> /\ extracted_urls = <<>>
PdfIdle == pdf_pages = <<>> /\ extraction = [outcome |-> "none"]
FepIdle == stored_resume = <<>> /\ fit_response = [status |-> 0]
UpIdle == upload_run = [pc |-> "none"] /\ tmp_files = {} /\ storage_log = <<>> /\ added_rows = {}
DbIdle == resume_documents = <<>> /\ portfolio_drafts = <<>> /\ sessions = <<>> /\ clock = 0
HeapIdle == heap = <<>> /\ heap_before = <<>> /\ stage_args = <<>> /\ stage_result = [t |-> "none"]
PfIdle == portfolio = <<>> /\ response = [endpoint |-> "none", status |-> 0]
RunIdle == definition_token_counters = <<>> /\ keyword_pattern_cache = <<>> /\ runs = <<>>
OldIdle == TokIdle /\ ClsIdle /\ FitIdle /\ UrlIdle /\ MrgIdle
ExtIdle == NrmIdle /\ SecIdle /\ DateIdle /\ EurlIdle /\ PdfIdle /\ RunIdle /\ PfIdle /\ HeapIdle /\ FepIdle /\ DbIdle /\ UpIdle
NrmRestIdle == SecIdle /\ DateIdle /\ EurlIdle /\ PdfIdle /\ RunIdle /\ PfIdle /\ HeapIdle /\ FepIdle /\ DbIdle /\ UpIdle
SecRestIdle == NrmIdle /\ DateIdle /\ EurlIdle /\ PdfIdle /\ RunIdle /\ PfIdle /\ HeapIdle /\ FepIdle /\ DbIdle /\ UpIdle
DateRestIdle == NrmIdle /\ SecIdle /\ EurlIdle /\ PdfIdle /\ RunIdle /\ PfIdle /\ HeapIdle /\ FepIdle /\ DbIdle /\ UpIdle
EurlRestIdle == NrmIdle /\ SecIdle /\ DateIdle /\ PdfIdle /\ RunIdle /\ PfIdle /\ HeapIdle /\ FepIdle /\ DbIdle /\ UpIdle
PdfRestIdle == NrmIdle /\ SecIdle /\ DateIdle /\ EurlIdle /\ RunIdle /\ PfIdle /\ HeapIdle /\ FepIdle /\ DbIdle /\ UpIdle
RunRestIdle == NrmIdle /\ SecIdle /\ DateIdle /\ EurlIdle /\ PdfIdle /\ PfIdle /\ HeapIdle /\ FepIdle /\ DbIdle /\ UpIdle
PfRestIdle == NrmIdle /\ SecIdle /\ DateIdle /\ EurlIdle /\ PdfIdle /\ RunIdle /\ HeapIdle /\ FepIdle /\ DbIdle /\ UpIdle
HeapRestIdle == NrmIdle /\ SecIdle /\ DateIdle /\ EurlIdle /\ PdfIdle /\ RunIdle /\ PfIdle /\ FepIdle /\ DbIdle /\ UpIdle
FepRestIdle == NrmIdle /\ SecIdle /\ DateIdle /\ EurlIdle /\ PdfIdle /\ RunIdle /\ PfIdle /\ HeapIdle /\ DbIdle /\ UpIdle
DbRestIdle == NrmIdle /\ SecIdle /\ DateIdle /\ EurlIdle /\ PdfIdle /\ RunIdle /\ PfIdle /\ HeapIdle /\ FepIdle /\ UpIdle
UpRestIdle == NrmIdle /\ SecIdle /\ DateIdle /\ EurlIdle /\ PdfIdle /\ RunIdle /\ PfIdle /\ HeapIdle /\ FepIdle /\ DbIdle

(***************************************************************************)
(* Specification SpecTok: _tokenize_text applied to a text.                *)
(***************************************************************************)
TokWords ==
  {"Teams", "the", "skills", "AI", "classes", "Python", "theses", "node.js",
   "abilities", "status"}

TokTexts == {join(" ", ws) : ws \in SeqsUpTo(TokWords, MaxTokWords)}

InitTok ==
  /\ pc = "start"
  /\ value \in TokTexts
  /\ tokens = <<>>
  /\ ClsIdle /\ FitIdle /\ UrlIdle /\ MrgIdle /\ ExtIdle

Tokenize ==
  /\ pc = "start"
  /\ tokens' = _tokenize_text(value)
  /\ pc' = "done"
  /\ UNCHANGED <<value, clsVars, fitVars, urlVars, mrgVars, extVars>>

NextTok == Tokenize

SpecTok == InitTok /\ [][NextTok]_vars

(***************************************************************************)
(* Specification SpecCls: _infer_job_type_from_description applied to a    *)
(* description and a skill-token set under a taxonomy.  The taxonomy file  *)
(* (backend/job_types.py) holds entries {id, label, keywords,              *)
(* skill_keywords}; the model draws the taxonomy from the orderings of a   *)
(* pool of such entries.                                                   *)
(***************************************************************************)
\* the empty taxonomy and the orderings of the pool
JOB_TYPE_DEFINITIONS ==
  {<<>>} \cup
  {defs \in [1..Cardinality(JobTypePool) -> JobTypePool] :
     \A i, j \in DOMAIN defs : i # j => defs[i] # defs[j]}

DescriptionWords == {"pipelines", "UI", "Python", "hello", "APIs", " "}
Descriptions ==
  {join(" ", ws) : ws \in SeqsUpTo(DescriptionWords, MaxDescriptionWords)}
SkillTokenUniverse == {"figma", "spark"}

InitCls ==
  /\ pc = "start"
  /\ taxonomy \in JOB_TYPE_DEFINITIONS
  /\ description \in Descriptions
  /\ skill_tokens \in SUBSET SkillTokenUniverse
  /\ classification = [category_id |-> "none"]
  /\ TokIdle /\ FitIdle /\ UrlIdle /\ MrgIdle /\ ExtIdle

Classify ==
  /\ pc = "start"
  /\ classification' =
       _infer_job_type_from_description(taxonomy, description, skill_tokens)
  /\ pc' = "done"
  /\ UNCHANGED <<taxonomy, description, skill_tokens,
                 tokVars, fitVars, urlVars, mrgVars, extVars>>

NextCls == Classify

SpecCls == InitCls /\ [][NextCls]_vars

(***************************************************************************)
(* Specification SpecFit: _score_resume_fit applied to a normalized        *)
(* payload (or None, or the empty dict) and a job description.             *)
(***************************************************************************)
FitSummaries == {"", "Python services"}
FitExperience ==
  {<<>>,
   <<[id |-> "exp-1", role |-> "Backend Engineer", company |-> "Acme",
      period |-> "2020-01", bullets |-> <<"Built Docker images">>]>>}
FitProjects ==
  {<<>>,
   <<[id |-> "proj-1", name |-> "Kafka tools", description |-> "Redis cache",
      link |-> "", bullets |-> <<"Linux">>]>>}
FitSkills ==
  {<<>>, <<"Python">>, <<"Python", "FastAPI">>,
   <<"Python", "FastAPI", "PostgreSQL", "Docker", "Kubernetes", "Redis",
     "Kafka", "Terraform", "GraphQL">>}

NormalizedPayloads ==
  {None, EmptyDict} \cup
  [summary : FitSummaries, experience : FitExperience,
   projects : FitProjects, skills : FitSkills]

JobWords == {"Python", "FastAPI", "Docker", "the"}
LongJobDescriptions ==
  {"AI", "  to be or UI  ",
   "Looking for a Python backend engineer with FastAPI and PostgreSQL experience",
   "Senior Python backend engineer: FastAPI, PostgreSQL, Docker, Kubernetes, Redis, Kafka, Terraform, GraphQL, Linux, Python"}
JobDescriptions ==
  {join(" ", ws) : ws \in SeqsUpTo(JobWords, MaxJobWords)}
    \cup LongJobDescriptions

InitFit ==
  /\ pc = "start"
  /\ normalized_payload \in NormalizedPayloads
  /\ job_description \in JobDescriptions
  /\ fit = [outcome |-> "none"]
  /\ TokIdle /\ ClsIdle /\ UrlIdle /\ MrgIdle /\ ExtIdle

ScoreFit ==
  /\ pc = "start"
  /\ \E half_up \in BOOLEAN :
       fit' = _score_resume_fit(normalized_payload, job_description, half_up)
  /\ pc' = "done"
  /\ UNCHANGED <<normalized_payload, job_description,
                 tokVars, clsVars, urlVars, mrgVars, extVars>>

NextFit == ScoreFit

SpecFit == InitFit /\ [][NextFit]_vars

(***************************************************************************)
(* Specification SpecUrl: canonicalize_http_url applied to a URL, and then  *)
(* again to its own result.                                                 *)
(***************************************************************************)
UrlPrefixes == {"", "https://", "HTTP://", "mailto:", "tel:"}
UrlPieces == {"A.com", "/", ";", " ", "?q", "#f"}
Urls ==
  {prefix \o join("", parts) :
     prefix \in UrlPrefixes, parts \in SeqsUpTo(UrlPieces, MaxUrlPieces)}

InitUrl ==
  /\ pc = "start"
  /\ url \in Urls
  /\ canonical = <<>>
  /\ TokIdle /\ ClsIdle /\ FitIdle /\ MrgIdle /\ ExtIdle

Canonicalize ==
  /\ pc = "start"
  /\ canonical' = <<canonicalize_http_url(url)>>
  /\ pc' = "canonical"
  /\ UNCHANGED <<url, tokVars, clsVars, fitVars, mrgVars, extVars>>

CanonicalizeAgain ==
  /\ pc = "canonical"
  /\ canonical' = Append(canonical, canonicalize_http_url(canonical[1]))
  /\ pc' = "done"
  /\ UNCHANGED <<url, tokVars, clsVars, fitVars, mrgVars, extVars>>

NextUrl == Canonicalize \/ CanonicalizeAgain

SpecUrl == InitUrl /\ [][NextUrl]_vars

(***************************************************************************)
(* Specification SpecLinks: merge_contact_links applied to a list of text  *)
(* URLs and the payload of the link annotations, and build_structure       *)
(* applied to the URLs and e-mail addresses matched in the text and the    *)
(* link annotations.                                                       *)
(***************************************************************************)
TextUrlPool ==
  {"a.com", "https://a.com/x", "c.org", "http://b.io/y", "www.c.org/"}
EmbeddedLinkPool ==
  {[url |-> "https://a.com/", page |-> 1, label |-> ""],
   [url |-> "HTTPS://A.com", page |-> 2, label |-> "Site"],
   [url |-> "http://b.io/y", page |-> 1, label |-> "Blog"],
   [url |-> "mailto:j@c.org", page |-> 1, label |-> ""]}
TextEmailPool == {<<>>, <<"j@a.com">>}

InitLinks ==
  /\ pc = "start"
  /\ text_found \in SeqsUpTo(TextUrlPool, MaxTextUrls)
  /\ text_emails \in TextEmailPool
  /\ \A email \in Range(text_emails) :
        SplitOnce(email, "@")[2] \in Range(text_found)
  /\ embedded_links \in SeqsUpTo(EmbeddedLinkPool, MaxEmbeddedLinks)
  /\ contact_links = <<>>
  /\ TokIdle /\ ClsIdle /\ FitIdle /\ UrlIdle /\ ExtIdle

Merge ==
  /\ pc = "start"
  /\ contact_links' =
       merge_contact_links(text_found,
                           summarize_embedded_links(embedded_links).payload)
  /\ pc' = "merged"
  /\ UNCHANGED <<text_found, text_emails, embedded_links,
                 tokVars, clsVars, fitVars, urlVars, extVars>>

BuildStructure ==
  /\ pc = "start"
  /\ contact_links' = build_structure(text_found, text_emails, embedded_links)
  /\ pc' = "built"
  /\ UNCHANGED <<text_found, text_emails, embedded_links,
                 tokVars, clsVars, fitVars, urlVars, extVars>>

NextLinks == Merge \/ BuildStructure

SpecLinks == InitLinks /\ [][NextLinks]_vars

(***************************************************************************)
(* Specification SpecNorm: _normalized_payload applied to a loosely typed  *)
(* parsed resume under the taxonomy.  Each key of the parsed dict is       *)
(* absent, or holds a value of the expected or of an unexpected type.      *)
(***************************************************************************)
\* the taxonomy in force
CurrentTaxonomy ==
  CHOOSE defs \in JOB_TYPE_DEFINITIONS :
    Len(defs) = 3 /\ defs[1].id = "data-engineering" /\ defs[2].id = "design"

\* the dict of the keys that are present; Absent marks a missing key
Absent == [t |-> "absent"]
DictOf(items) == VDict(SelectSeq(items, LAMBDA item : item.val # Absent))

ExperienceItems ==
  {VDict(<<Item("title", VStr("Developer")), Item("company", VStr("Acme")),
           Item("start_date", VStr("2020")),
           Item("achievements", VList(<<VStr(" Built Python APIs "),
                                        VInt(3), VStr(" ")>>))>>),
   VDict(<<Item("role", VInt(7)), Item("achievements", VInt(5))>>),
   VDict(<<Item("position", VStr("Designer")), Item("achievements", VInt(0)),
           Item("bullets", VStr("UI"))>>),
   VDict(<<Item("highlights", VDict(<<Item("first", VNone)>>)),
           Item("end_date", VInt(2021))>>),
   VStr("Developer at Acme")}

ParsedExperience ==
  {Absent, VNone, VStr("Developer at Acme"), VInt(5)}
    \cup {VList(items) : items \in SeqsUpTo(ExperienceItems, MaxExperienceItems)}

ParsedSkills ==
  {Absent, VNone, VStr("Python"), VInt(7),
   VList(<<VStr("Python"), VInt(5), VNone, VStr(" C++ ")>>)}

ParsedContact ==
  {Absent, VStr("jane@a.com"),
   VDict(<<Item("emails", VStr("jane@a.com"))>>),
   VDict(<<Item("emails", VInt(5)),
           Item("phones", VList(<<VStr("555 1234"), VStr("555-1234")>>)),
           Item("urls", VNone)>>)}

ParsedEducation ==
  {Absent, VInt(5),
   VList(<<VDict(<<Item("school", VStr("MIT")), Item("program", VStr("BS")),
                   Item("start_date", VInt(2016))>>)>>)}

ParsedProjects ==
  {Absent, VDict(<<Item("name", VStr("Portfolio"))>>),
   VList(<<VDict(<<Item("name", VStr("Portfolio")),
                   Item("details", VStr("- UI\n- api"))>>)>>)}

ParsedResumes ==
  {DictOf(<<Item("experience", experience), Item("skills", skills),
            Item("contact", contact), Item("education", education),
            Item("projects", projects)>>) :
     experience \in ParsedExperience, skills \in ParsedSkills,
     contact \in ParsedContact, education \in ParsedEducation,
     projects \in ParsedProjects}

\* the first eight hex digits of a uuid4: two of the 16^8 texts
UuidHexes == {"0a1b2c3d", "9f8e7d6c"}

\* the draws of uuid4 for the entries of the three lists
HexDraws(parsed_) ==
  [experience :
     [DOMAIN DictItems(DictGet(parsed_, "experience")) -> UuidHexes],
   education :
     [DOMAIN DictItems(DictGet(parsed_, "education")) -> UuidHexes],
   projects :
     [DOMAIN DictItems(DictGet(parsed_, "projects")) -> UuidHexes]]

InitNorm ==
  /\ pc = "start"
  /\ llm_parsed \in ParsedResumes
  /\ norm_result = [outcome |-> "none"]
  /\ taxonomy = CurrentTaxonomy
  /\ description = ""
  /\ skill_tokens = {}
  /\ classification = [category_id |-> "none"]
  /\ TokIdle /\ FitIdle /\ UrlIdle /\ MrgIdle /\ NrmRestIdle

Normalize ==
  /\ pc = "start"
  /\ \E hexes \in HexDraws(llm_parsed) :
       norm_result' = _normalized_payload(taxonomy, llm_parsed, hexes)
  /\ pc' = "done"
  /\ UNCHANGED <<llm_parsed, oldVars, nrmRest>>

NextNorm == Normalize

SpecNorm == InitNorm /\ [][NextNorm]_vars

(***************************************************************************)
(* Specification SpecLong: _normalized_payload applied to a parsed resume  *)
(* whose job description and raw resume text are about                     *)
(* MAX_JOB_DESCRIPTION_LENGTH characters long: a long word followed by a   *)
(* short tail, so that the limit falls before, inside or after a word of   *)
(* the tail.                                                                *)
(***************************************************************************)
\* the text s repeated n times
RECURSIVE Repeat(_, _)
Repeat(s, n) ==
  IF n = 0 THEN ""
  ELSE IF n % 2 = 1 THEN s \o Repeat(s, n - 1)
  ELSE Repeat(s \o s, n \div 2)

LongTails == {" Python", " UI  api", "\nFigma", "x"}

\* texts that pass the limit by at most MaxOverflow + 7 characters, and one
\* of exactly the limit
LongTexts ==
  {Repeat("x", MAX_JOB_DESCRIPTION_LENGTH - Len(tail) + over) \o tail :
     tail \in LongTails, over \in 0..MaxOverflow}
    \cup {Repeat("x", MAX_JOB_DESCRIPTION_LENGTH - 5) \o " " \o tail :
            tail \in {"Spark and Kafka", "data  pipelines"}}

\* raw resume texts one character over the limit
LongRawTexts ==
  {Repeat("x", MAX_JOB_DESCRIPTION_LENGTH - Len(tail) + 1) \o tail :
     tail \in LongTails}

LongParsed ==
  {VDict(<<Item("job_description", VStr(jd)),
           Item("raw_resume_text", VStr(raw_text))>>) :
     jd \in LongTexts, raw_text \in LongRawTexts}

InitLong ==
  /\ pc = "start"
  /\ llm_parsed \in LongParsed
  /\ norm_result = [outcome |-> "none"]
  /\ taxonomy = CurrentTaxonomy
  /\ description = ""
  /\ skill_tokens = {}
  /\ classification = [category_id |-> "none"]
  /\ TokIdle /\ FitIdle /\ UrlIdle /\ MrgIdle /\ NrmRestIdle

SpecLong == InitLong /\ [][NextNorm]_vars

(***************************************************************************)
(* Specification SpecDates: parse_date_range applied to a text made of a   *)
(* prefix, a start token, a separator, an end token and a suffix.          *)
(***************************************************************************)
DatePrefixes == {"", "Engineer, ", "x"}
DateStarts ==
  {"Jan 2020", "Sept2019", "March  2018", "_ep 2020", "1999", "Jan 20201",
   "Janu 2020", ""}
DateSeparators == {" - ", "~", " ^ ", " to ", ""}
DateEnds ==
  {"Present", "PRESENT", "present", "May 2021", "Dec2022", "Augu_t 2020",
   "now", ""}
DateSuffixes == {"", " (remote)"}

DateTexts ==
  {prefix \o start \o separator \o end \o suffix :
     prefix \in DatePrefixes, start \in DateStarts,
     separator \in DateSeparators, end \in DateEnds, suffix \in DateSuffixes}

InitDates ==
  /\ pc = "start"
  /\ date_text \in DateTexts
  /\ date_range = <<>>
  /\ OldIdle /\ DateRestIdle

ParseDateRange ==
  /\ pc = "start"
  /\ date_range' = parse_date_range(date_text)
  /\ pc' = "done"
  /\ UNCHANGED <<date_text, oldVars, dateRest>>

NextDates == ParseDateRange

SpecDates == InitDates /\ [][NextDates]_vars

(***************************************************************************)
(* Specification SpecSections: a resume text of a few lines is split into  *)
(* sections, then its "Work Experience" sections are parsed into           *)
(* experience entries and its "Education" sections into education entries  *)
(* (build_structure).                                                      *)
(***************************************************************************)
MaxLines == 3

ResumeLines ==
  {"Work Experience", "Education", "Skills", "Jane Doe", "",
   "Jan 2020 - Present", "- Feb 2019 - Mar 2020", "* Built things",
   "State University"}

ExampleResume ==
  join("\n", <<"Work Experience", "Senior Engineer - Acme Corp",
               "Jan 2020 - Present", "* Built things", "Education",
               "State University", "B.S. Computer Science",
               "Aug 2016 - May 2020">>)

ResumeTexts ==
  {join("\n", lines) : lines \in SeqsUpTo(ResumeLines, MaxLines)}
    \cup {ExampleResume}

InitSections ==
  /\ pc = "start"
  /\ resume_text \in ResumeTexts
  /\ resume_sections = <<>>
  /\ experience_entries = <<>>
  /\ education_entries = <<>>
  /\ OldIdle /\ SecRestIdle

SplitSections ==
  /\ pc = "start"
  /\ resume_sections' = split_sections(resume_text)
  /\ pc' = "split"
  /\ UNCHANGED <<resume_text, experience_entries, education_entries,
                 oldVars, secRest>>

\* bucket.get(title, []): the contents of the sections with the title
Bucket(sections, title) ==
  LET titled == SelectSeq(sections, LAMBDA section : section.title = title)
  IN [k \in DOMAIN titled |-> titled[k].content]

ParseExperience ==
  /\ pc = "split"
  /\ experience_entries' =
       LET experience_sections == Bucket(resume_sections, "Work Experience")
       IN Concat([k \in DOMAIN experience_sections |->
                    parse_experience_section(experience_sections[k])])
  /\ pc' = "experience"
  /\ UNCHANGED <<resume_text, resume_sections, education_entries,
                 oldVars, secRest>>

ParseEducation ==
  /\ pc = "experience"
  /\ education_entries' =
       LET education_sections == Bucket(resume_sections, "Education")
       IN Concat([k \in DOMAIN education_sections |->
                    parse_education_section(education_sections[k])])
  /\ pc' = "parsed"
  /\ UNCHANGED <<resume_text, resume_sections, experience_entries,
                 oldVars, secRest>>

NextSections == SplitSections \/ ParseExperience \/ ParseEducation

SpecSections == InitSections /\ [][NextSections]_vars

(***************************************************************************)
(* Specification SpecExtractUrls: extract_urls applied to a text that      *)
(* holds a URL of a domain, bare or with a scheme or "www.", alone or      *)
(* followed by a path, a query or a fragment, and to a list of detected    *)
(* e-mail addresses.                                                       *)
(***************************************************************************)
BlockPrefixes == {"", "see "}
BlockSchemes == {"", "https://", "http://", "www.", "https://www.", "HTTPS://"}
BlockDomains == {"acme.com", "Acme.com", "jobs.acme.com"}
BlockTails == {"", "/", "/jobs", "?q=1", "#top", ".", " j@acme.com"}

ContactBlocks ==
  {prefix \o scheme \o domain \o tail :
     prefix \in BlockPrefixes, scheme \in BlockSchemes,
     domain \in BlockDomains, tail \in BlockTails}

ContactEmails ==
  {<<>>, <<"j@acme.com">>, <<"J@ACME.COM">>, <<"noat">>,
   <<"k@x.io", "j@acme.com">>}

InitExtractUrls ==
  /\ pc = "start"
  /\ contact_block \in ContactBlocks
  /\ contact_emails \in ContactEmails
  /\ extracted_urls = <<>>
  /\ OldIdle /\ EurlRestIdle

ExtractUrls ==
  /\ pc = "start"
  /\ extracted_urls' = extract_urls(URL_RE(contact_block), contact_emails)
  /\ pc' = "done"
  /\ UNCHANGED <<contact_block, contact_emails, oldVars, eurlRest>>

NextExtractUrls == ExtractUrls

SpecExtractUrls == InitExtractUrls /\ [][NextExtractUrls]_vars

(***************************************************************************)
(* Specification SpecPdf: extract_text_and_links applied to a document of  *)
(* a few pages, each with a text and with no "/Annots" entry or a few      *)
(* annotations.                                                            *)
(***************************************************************************)
MaxPages == 2
MaxAnnotations == 2

LinkAnnotation(action, uri, contents, title) ==
  [resolves |-> "dict", Subtype |-> "/Link", A |-> action, URI |-> uri,
   Contents |-> contents, T |-> title]

UriAction(uri) == [t |-> "dict", S |-> "/URI", URI |-> uri]

Annotations ==
  {LinkAnnotation(UriAction(VStr("https://a.com")), VNone, VNone, VNone),
   LinkAnnotation(VNone, VStr("https://b.io"), VStr("Blog"), VNone),
   LinkAnnotation(VNone, VStr("https://a.com"), VNone, VStr("Site")),
   LinkAnnotation([t |-> "dict", S |-> "/GoTo", URI |-> VNone],
                  VNone, VNone, VNone),
   LinkAnnotation(UriAction(VNone), VNone, VStr("Blog"), VNone),
   [resolves |-> "dict", Subtype |-> "/Text", A |-> VNone,
    URI |-> VStr("https://c.org"), Contents |-> VStr("note"), T |-> VNone],
   [resolves |-> "raises"],
   [resolves |-> "null"]}

PageTexts == {"Jane Doe", "  "}

Pages ==
  {[text |-> text, Annots |-> annots] :
     text \in PageTexts,
     annots \in {VNone} \cup {VList(list) :
                               list \in SeqsUpTo(Annotations, MaxAnnotations)}}

InitPdf ==
  /\ pc = "start"
  /\ pdf_pages \in SeqsUpTo(Pages, MaxPages)
  /\ extraction = [outcome |-> "none"]
  /\ OldIdle /\ PdfRestIdle

ExtractTextAndLinks ==
  /\ pc = "start"
  /\ extraction' = extract_text_and_links(pdf_pages)
  /\ pc' = "done"
  /\ UNCHANGED <<pdf_pages, oldVars, pdfRest>>

NextPdf == ExtractTextAndLinks

SpecPdf == InitPdf /\ [][NextPdf]_vars

(***************************************************************************)
(* Specification SpecRuns: concurrent pipeline runs after the module is    *)
(* loaded.  A run classifies a description or scores a fit; a              *)
(* classification looks its keywords up one by one, and a lookup that      *)
(* misses the cache compiles the pattern and stores it in a later step, so *)
(* that the runs interleave between the get and the store.                 *)
(***************************************************************************)
MaxRuns == 2

RunIds == 1..MaxRuns

RunDescriptions == {"", "UI python api"}
RunSkillTokens == {{}, {"python", "figma"}}

IdleRun ==
  [at |-> "idle", clean |-> "", skill_tokens |-> {}, lookups |-> <<>>,
   normalized |-> "", result |-> [category_id |-> "none"]]

InitRuns ==
  /\ pc = "loaded"
  /\ definition_token_counters = _DEFINITION_TOKEN_COUNTERS
  /\ keyword_pattern_cache = [normalized \in {} |-> CompiledPattern(normalized)]
  /\ runs = [r \in RunIds |-> IdleRun]
  /\ taxonomy = CurrentTaxonomy
  /\ description = ""
  /\ skill_tokens = {}
  /\ classification = [category_id |-> "none"]
  /\ TokIdle /\ FitIdle /\ UrlIdle /\ MrgIdle /\ RunRestIdle

RunUnchanged == UNCHANGED <<pc, oldVars, runRest>>

\* _infer_job_type_from_description is entered
StartClassification(r) ==
  /\ runs[r].at = "idle"
  /\ \E text \in RunDescriptions, given \in RunSkillTokens :
       runs' = [runs EXCEPT ![r] =
                  [@ EXCEPT !.at = "lookup",
                            !.clean = join(" ", split(text)),
                            !.skill_tokens = given,
                            !.lookups = Lookups(taxonomy,
                                                join(" ", split(text)),
                                                given)]]
  /\ UNCHANGED <<definition_token_counters, keyword_pattern_cache>>
  /\ RunUnchanged

\* _keyword_in_text up to _KEYWORD_PATTERN_CACHE.get(normalized): a hit, or
\* a keyword that never reaches the cache, ends the lookup
GetPattern(r) ==
  /\ runs[r].at = "lookup"
  /\ runs[r].lookups # <<>>
  /\ LET keyword == Head(runs[r].lookups)
     IN IF ReachesCache(keyword, runs[r].clean)
             /\ NormalizeKeyword(keyword) \notin DOMAIN keyword_pattern_cache
        THEN runs' = [runs EXCEPT ![r] =
                        [@ EXCEPT !.at = "compile",
                                  !.normalized = NormalizeKeyword(keyword)]]
        ELSE runs' = [runs EXCEPT ![r] =
                        [@ EXCEPT !.lookups = Tail(@)]]
  /\ UNCHANGED <<definition_token_counters, keyword_pattern_cache>>
  /\ RunUnchanged

\* _KEYWORD_PATTERN_CACHE[normalized] = compiled
StorePattern(r) ==
  /\ runs[r].at = "compile"
  /\ keyword_pattern_cache' =
       [normalized \in DOMAIN keyword_pattern_cache \cup {runs[r].normalized}
          |-> CompiledPattern(normalized)]
  /\ runs' = [runs EXCEPT ![r] =
                [@ EXCEPT !.at = "lookup", !.lookups = Tail(@)]]
  /\ UNCHANGED definition_token_counters
  /\ RunUnchanged

\* the lookups are over: the run returns its result
FinishClassification(r) ==
  /\ runs[r].at = "lookup"
  /\ runs[r].lookups = <<>>
  /\ runs' = [runs EXCEPT ![r] =
                [@ EXCEPT !.at = "done",
                          !.result = Classified(taxonomy, runs[r].clean,
                                                runs[r].skill_tokens)]]
  /\ UNCHANGED <<definition_token_counters, keyword_pattern_cache>>
  /\ RunUnchanged

RunPayloads ==
  {None,
   [summary |-> "Python services", experience |-> <<>>, projects |-> <<>>,
    skills |-> <<"Python", "FastAPI">>]}

\* _score_resume_fit: it reads neither table
ScoreFitRun(r) ==
  /\ runs[r].at = "idle"
  /\ \E payload \in RunPayloads, half_up \in BOOLEAN :
       runs' = [runs EXCEPT ![r] =
                  [@ EXCEPT !.at = "done",
                            !.result = _score_resume_fit(payload,
                                                         "Python FastAPI",
                                                         half_up)]]
  /\ UNCHANGED <<definition_token_counters, keyword_pattern_cache>>
  /\ RunUnchanged

NextRuns ==
  \E r \in RunIds :
    \/ StartClassification(r)
    \/ GetPattern(r)
    \/ StorePattern(r)
    \/ FinishClassification(r)
    \/ ScoreFitRun(r)

SpecRuns == InitRuns /\ [][NextRuns]_vars

(***************************************************************************)
(* Specification SpecPortfolio: uploads and updates write rows of the      *)
(* PortfolioDraft table, the three reads answer from them, and the service *)
(* is started again with a taxonomy that may have changed.  Uploads come   *)
(* without a job description (no tailored summary or highlights) and the   *)
(* storage of the PDF is disabled.                                         *)
(***************************************************************************)
\* the rows the table holds at most
MaxPortfolios == 1

\* the taxonomies backend/job_types.py holds over the life of the database
Taxonomies == {CurrentTaxonomy, <<>>}

\* what label_with_llm returns for the uploads: the second one makes
\* _normalized_payload raise
UploadedResumes ==
  {VDict(<<Item("summary", VStr("Python developer")),
           Item("skills", VList(<<VStr("Python"), VStr("FastAPI")>>))>>),
   VDict(<<Item("experience",
                VList(<<VDict(<<Item("role", VInt(7)),
                                Item("achievements", VInt(5))>>)>>))>>)}

\* the pairs of uuid4 draws of _persist_resume
IdDraws ==
  {[resume_id |-> "r1", portfolio_id |-> "p1"],
   [resume_id |-> "r2", portfolio_id |-> "p2"]}

PortfolioIds == {draw.portfolio_id : draw \in IdDraws}

\* a classification the client holds from an earlier response
EarlierJobType ==
  VResult(_infer_job_type_from_description(CurrentTaxonomy, "python api", {}))

\* the data of the update requests: an edited payload sent back with the
\* classifications of an earlier response, the same with a number where the
\* experience list belongs, and one whose themes are no object
UpdateData ==
  {VDict(<<Item("summary", VStr("UX designer")),
           Item("skills", VList(<<VStr("Figma")>>)),
           Item("job_type", EarlierJobType),
           Item("resume_job_type", EarlierJobType)>>),
   VDict(<<Item("summary", VStr("UX designer")),
           Item("experience", VInt(5)),
           Item("job_type", EarlierJobType),
           Item("resume_job_type", EarlierJobType)>>),
   VDict(<<Item("themes", VInt(5))>>)}

UpdateSlugs == {VNone, VStr(" demo "), VStr("")}
UpdateStatuses == {VNone, VStr("published")}
UpdateVisibilities == {VNone, VStr("public")}
ReadSlugs == {"demo"}

\* datetime.now(timezone.utc) at the update
Now == VStr("2026-01-01T00:00:00+00:00")

UpdateRequests ==
  [data : UpdateData, slug : UpdateSlugs, status : UpdateStatuses,
   visibility : UpdateVisibilities]

InitPortfolio ==
  /\ pc = "serving"
  /\ portfolio = <<>>
  /\ response = [endpoint |-> "none", status |-> 0]
  /\ taxonomy = CurrentTaxonomy
  /\ description = ""
  /\ skill_tokens = {}
  /\ classification = [category_id |-> "none"]
  /\ TokIdle /\ FitIdle /\ UrlIdle /\ MrgIdle /\ PfRestIdle

PortfolioUnchanged ==
  UNCHANGED <<pc, tokVars, description, skill_tokens, classification, fitVars,
              urlVars, mrgVars, pfRest>>

\* the service is started: backend.job_types is imported
Restart ==
  /\ taxonomy' \in Taxonomies
  /\ response' = [endpoint |-> "none", status |-> 0]
  /\ UNCHANGED portfolio
  /\ PortfolioUnchanged

\* the row and the response of an upload whose payload is normalized
Persist(normalized_, draw) ==
  /\ portfolio' = Append(portfolio,
                         PersistedPortfolio(normalized_, draw.resume_id,
                                            draw.portfolio_id))
  /\ response' = [endpoint |-> "parse", status |-> 200]

\* POST /api/parse: _process_resume_request and _persist_resume
Upload ==
  /\ Len(portfolio) < MaxPortfolios
  /\ \E parsed_ \in UploadedResumes, draw \in IdDraws :
       /\ \A i \in DOMAIN portfolio : portfolio[i].id # draw.portfolio_id
       /\ \E hexes \in HexDraws(parsed_) :
            LET normalized_ == _normalized_payload(taxonomy, parsed_, hexes)
            IN IF normalized_.outcome = "ok"
               THEN Persist(normalized_.payload, draw)
               ELSE /\ response' = [endpoint |-> "parse", status |-> 500]
                    /\ UNCHANGED portfolio
  /\ UNCHANGED taxonomy
  /\ PortfolioUnchanged

\* the response of update_portfolio for the row at i, and the table after it
Updated(i, request) ==
  IF SlugConflict(portfolio, portfolio[i], request.slug)
  THEN /\ response' = [endpoint |-> "update_portfolio", status |-> 409]
       /\ UNCHANGED portfolio
  ELSE IF UpdateRaises(request.data)
  THEN /\ response' = [endpoint |-> "update_portfolio", status |-> 500]
       /\ UNCHANGED portfolio
  ELSE /\ response' = [endpoint |-> "update_portfolio", status |-> 200]
       /\ portfolio' = [portfolio EXCEPT
                          ![i] = UpdatedPortfolio(@, request, Now)]

\* PUT /api/portfolios/{portfolio_id}
UpdatePortfolio ==
  /\ \E portfolio_id \in PortfolioIds, request \in UpdateRequests :
       IF \E i \in DOMAIN portfolio : portfolio[i].id = portfolio_id
       THEN Updated(CHOOSE i \in DOMAIN portfolio :
                      portfolio[i].id = portfolio_id, request)
       ELSE /\ response' = [endpoint |-> "update_portfolio", status |-> 404]
            /\ UNCHANGED portfolio
  /\ UNCHANGED taxonomy
  /\ PortfolioUnchanged

\* GET /api/portfolios/{portfolio_id}
ReadPortfolio ==
  /\ \E portfolio_id \in PortfolioIds :
       response' = read_portfolio(taxonomy, portfolio, portfolio_id)
  /\ UNCHANGED <<portfolio, taxonomy>>
  /\ PortfolioUnchanged

\* GET /api/portfolios/by-slug/{slug}
ReadPortfolioBySlug ==
  /\ \E slug \in ReadSlugs :
       response' = read_portfolio_by_slug(taxonomy, portfolio, slug)
  /\ UNCHANGED <<portfolio, taxonomy>>
  /\ PortfolioUnchanged

\* GET /api/portfolios/preview/{slug}
ReadPortfolioDraftPreview ==
  /\ \E slug \in ReadSlugs, portfolio_id \in PortfolioIds :
       response' = read_portfolio_draft_preview(taxonomy, portfolio, slug,
                                                portfolio_id)
  /\ UNCHANGED <<portfolio, taxonomy>>
  /\ PortfolioUnchanged

NextPortfolio ==
  \/ Restart
  \/ Upload
  \/ UpdatePortfolio
  \/ ReadPortfolio
  \/ ReadPortfolioBySlug
  \/ ReadPortfolioDraftPreview

SpecPortfolio == InitPortfolio /\ [][NextPortfolio]_vars

(***************************************************************************)
(* Specification SpecStages: the stages of the pipeline called on          *)
(* arguments that live on the heap.  _normalized_payload is called on a    *)
(* parsed resume and the two classifiers and the fit scorer on the payload *)
(* it returned; merge_contact_links is called on a list of text URLs and   *)
(* the entries of the link annotations.                                    *)
(***************************************************************************)
StageResumes ==
  {VDict(<<Item("summary", VStr("Python developer")),
           Item("skills", VList(<<VStr("Python")>>))>>),
   VDict(<<Item("summary", VStr("Python developer")),
           Item("experience",
                VList(<<VDict(<<Item("role", VStr("Engineer")),
                                Item("achievements",
                                     VList(<<VStr("Built APIs")>>))>>)>>)),
           Item("embedded_links",
                VList(<<VDict(<<Item("url", VStr("https://a.com/"))>>)>>))>>),
   VDict(<<Item("skills", VStr("Python")),
           Item("embedded_links", VList(<<>>)),
           Item("raw_resume_text", VStr("Python developer"))>>),
   VDict(<<Item("experience",
                VList(<<VDict(<<Item("role", VInt(7)),
                                Item("achievements", VInt(5))>>)>>))>>)}

\* the entries of the link annotations as values
EntryValue(entry) ==
  VDict(<<Item("type", VStr(entry.type)), Item("url", VStr(entry.url)),
          Item("source", VStr(entry.source)), Item("label", VStr(entry.label)),
          Item("page", VInt(entry.page))>>)

\* the entry a value stands for
EntryRecord(val) ==
  [type |-> DictGet(val, "type").v,
   url |-> DictGet(val, "url").v, source |-> DictGet(val, "source").v,
   label |-> DictGet(val, "label").v, page |-> DictGet(val, "page").v]

StageTextUrls == SeqsUpTo(TextUrlPool, 1)
StageEmbedded == SeqsUpTo(EmbeddedLinkPool, 1)
StageJobDescription == "Python backend engineer"

\* the links merge_contact_links returns, as values
LinkValue(link) ==
  VDict(<<Item("url", VStr(link.url)), Item("source", VStr(link.source)),
          Item("label", VStr(link.label)), Item("page", VInt(link.page))>>)

\* the heap of the start: the parsed resume, the text URLs, the entries
StartHeap(parsed_, urls_, links) ==
  StoreAll(<<>>,
           <<parsed_,
             VList([i \in DOMAIN urls_ |-> VStr(urls_[i])]),
             VList([i \in DOMAIN links |->
                      EntryValue(
                        summarize_embedded_links(links).payload[i])])>>)

InitStages ==
  /\ pc = "start"
  /\ \E parsed_ \in StageResumes, urls_ \in StageTextUrls,
        links \in StageEmbedded :
       /\ heap = StartHeap(parsed_, urls_, links).h
       /\ stage_args = StartHeap(parsed_, urls_, links).rs
  /\ heap_before = heap
  /\ stage_result = VNone
  /\ taxonomy = CurrentTaxonomy
  /\ description = ""
  /\ skill_tokens = {}
  /\ classification = [category_id |-> "none"]
  /\ TokIdle /\ FitIdle /\ UrlIdle /\ MrgIdle /\ HeapRestIdle

StagesUnchanged ==
  UNCHANGED <<tokVars, clsVars, fitVars, urlVars, mrgVars, heapRest>>

\* a stage is called on args and returns the value stored by stored
Returned(args, stored) ==
  /\ heap_before' = heap
  /\ stage_args' = args
  /\ heap' = stored.h
  /\ stage_result' = stored.r

\* a stage is called on args and raises
Raised(args, error) ==
  /\ heap_before' = heap
  /\ stage_args' = args
  /\ heap' = heap
  /\ stage_result' = VStr(error)

\* normalized = _normalized_payload(parsed)
NormalizePayload ==
  /\ pc = "start"
  /\ \E hexes \in HexDraws(Load(heap, stage_args[1])) :
       LET normalized_ ==
             _normalized_payload(taxonomy, Load(heap, stage_args[1]), hexes)
       IN IF normalized_.outcome = "ok"
          THEN /\ Returned(<<stage_args[1]>>,
                           StoreNormalized(heap, stage_args[1].a,
                                           normalized_.payload))
               /\ pc' = "normalized"
          ELSE /\ Raised(<<stage_args[1]>>, normalized_.outcome)
               /\ pc' = "done"
  /\ StagesUnchanged

\* _infer_job_type(payload) on the payload of the last stage
InferJobType ==
  /\ pc = "normalized"
  /\ Returned(<<stage_result>>,
              Store(heap,
                    VResult(_infer_job_type(taxonomy,
                                            Load(heap, stage_result)))))
  /\ pc' = "done"
  /\ StagesUnchanged

\* _infer_job_type_from_resume(payload) on the payload of the last stage
InferJobTypeFromResume ==
  /\ pc = "normalized"
  /\ Returned(<<stage_result>>,
              Store(heap,
                    VResult(_infer_job_type_from_resume(
                              taxonomy, Load(heap, stage_result)))))
  /\ pc' = "done"
  /\ StagesUnchanged

\* _score_resume_fit(payload, jd) on the payload of the last stage; the
\* result holds new lists and a new dict of metrics only
ScoreResumeFit ==
  /\ pc = "normalized"
  /\ \E half_up \in BOOLEAN :
       Returned(<<stage_result, VStr(StageJobDescription)>>,
                Allocated(heap,
                          [t |-> "result",
                           v |-> _score_resume_fit(
                                   FitPayload(Load(heap, stage_result)),
                                   StageJobDescription, half_up)]))
  /\ pc' = "done"
  /\ StagesUnchanged

\* merge_contact_links(text_urls, embedded_payload)
MergeContactLinks ==
  /\ pc = "start"
  /\ LET urls_ == Load(heap, stage_args[2])
         entries == Load(heap, stage_args[3])
         merged ==
           merge_contact_links(
             [i \in DOMAIN urls_.v |-> urls_.v[i].v],
             [i \in DOMAIN entries.v |-> EntryRecord(entries.v[i])])
     IN Returned(<<stage_args[2], stage_args[3]>>,
                 Store(heap, VList([i \in DOMAIN merged |->
                                      LinkValue(merged[i])])))
  /\ pc' = "done"
  /\ StagesUnchanged

NextStages ==
  \/ NormalizePayload
  \/ InferJobType
  \/ InferJobTypeFromResume
  \/ ScoreResumeFit
  \/ MergeContactLinks

SpecStages == InitStages /\ [][NextStages]_vars

(***************************************************************************)
(* Specification SpecFitEndpoint: evaluate_resume_fit is requested for a   *)
(* resume id that names no row, or a row with its payloads and its job     *)
(* description.                                                            *)
(***************************************************************************)
StoredJobDescriptions ==
  {VNone, VStr(""), VStr("AI"), VStr("the and of"), VStr("  "),
   VStr("Python backend engineer")}
PayloadJobDescriptions ==
  {VNone, VStr(""), VStr("to be or UI"), VStr("FastAPI services")}

StoredPayloads ==
  [summary : FitSummaries, experience : {<<>>}, projects : {<<>>},
   skills : {<<>>, <<"Python", "FastAPI">>},
   job_description : PayloadJobDescriptions]

ParsedFallback ==
  [summary |-> "Python services", experience |-> <<>>, projects |-> <<>>,
   skills |-> <<>>, job_description |-> VStr("Python")]

StoredResumes ==
  [normalized_payload : StoredPayloads \cup {EmptyDict},
   parsed_payload : {ParsedFallback},
   job_description : StoredJobDescriptions]

InitFitEndpoint ==
  /\ pc = "start"
  /\ stored_resume \in {<<>>} \cup {<<resume>> : resume \in StoredResumes}
  /\ fit_response = [status |-> 0]
  /\ OldIdle /\ FepRestIdle

\* GET /api/resumes/{resume_id}/fit
EvaluateResumeFit ==
  /\ pc = "start"
  /\ \E declared \in BOOLEAN, half_up \in BOOLEAN :
       fit_response' = evaluate_resume_fit(stored_resume, declared, half_up)
  /\ pc' = "done"
  /\ UNCHANGED <<stored_resume, oldVars, fepRest>>

NextFitEndpoint == EvaluateResumeFit

SpecFitEndpoint == InitFitEndpoint /\ [][NextFitEndpoint]_vars

(***************************************************************************)
(* Specification SpecResumeType: _infer_job_type_from_resume applied to a  *)
(* payload under a taxonomy.  The payload holds no raw dict, a raw value   *)
(* that is no dict, or a raw dict with a text under raw_resume_text or     *)
(* raw_text; the summary and the skills are what the fragments are made    *)
(* of.  stage_args holds the payload and stage_result the returned dict.   *)
(***************************************************************************)
RawResumeTexts == {"", " \n", "hello world", "Python APIs", "UX designer"}

ResumeRaws ==
  {Absent, VStr("Python APIs")}
    \cup {VDict(<<Item(key, VStr(raw_text))>>) :
            key \in {"raw_resume_text", "raw_text"},
            raw_text \in RawResumeTexts}

ResumeSummaries == {"", "UX designer", "data pipelines"}

ResumeSkills == {Absent, VList(<<VStr("Figma")>>), VList(<<VStr("Spark")>>)}

ResumePayloads ==
  {DictOf(<<Item("summary", VStr(summary_)), Item("skills", skills),
            Item("raw", raw_payload)>>) :
     summary_ \in ResumeSummaries, skills \in ResumeSkills,
     raw_payload \in ResumeRaws}

InitResumeType ==
  /\ pc = "start"
  /\ taxonomy \in Taxonomies
  /\ \E payload \in ResumePayloads : stage_args = <<payload>>
  /\ stage_result = VNone
  /\ heap = <<>>
  /\ heap_before = <<>>
  /\ description = ""
  /\ skill_tokens = {}
  /\ classification = [category_id |-> "none"]
  /\ TokIdle /\ FitIdle /\ UrlIdle /\ MrgIdle /\ HeapRestIdle

\* _infer_job_type_from_resume(payload)
ClassifyResume ==
  /\ pc = "start"
  /\ stage_result' =
       VResult(_infer_job_type_from_resume(taxonomy, stage_args[1]))
  /\ pc' = "done"
  /\ UNCHANGED <<heap, heap_before, stage_args>>
  /\ StagesUnchanged

NextResumeType == ClassifyResume

SpecResumeType == InitResumeType /\ [][NextResumeType]_vars

(***************************************************************************)
(* Specifications SpecDrafts and SpecUpdates: uploads that reach           *)
(* _persist_resume, and update_portfolio requests, on the two tables.      *)
(* update_portfolio runs in the steps between which it awaits the          *)
(* database: the load of the portfolio, the query for the slug with the    *)
(* changes to the loaded row, the load of the resume with the storage      *)
(* metadata, and the commit.  In SpecDrafts one request is in flight at a  *)
(* time; in SpecUpdates MaxSessions requests run interleaved.              *)
(***************************************************************************)
\* the rows a table holds at most, the requests in flight at most, and the
\* update requests that arrive at most: the clock ticks at each arrival
MaxDrafts == 2
MaxSessions == 2
MaxClock == 2

\* the normalized payloads that reach _persist_resume
DraftPayloads ==
  {VDict(<<Item("summary", VStr("Python developer")),
           Item("themes", VDict(<<Item("selected", VStr("midnight"))>>))>>)}

\* what _maybe_upload_to_supabase returns: None when the storage is off, or
\* the asset, with or without a signed URL
StorageResults ==
  {<<>>,
   <<UploadedAsset("resumes", "uploads/a.pdf", VStr("https://s/signed"))>>}

\* what storage.create_signed_url gives at an update
SignedUrls == {VNone, VStr("https://s/refreshed")}

\* uuid4 of _persist_resume: the ids of the n-th pair of rows
ResumeIds == <<"r1", "r2", "r3">>
DraftIds == <<"p1", "p2", "p3">>

\* the data of the update requests: an edited payload that carries a meta
\* of its own, and one whose themes are no object
EditedData ==
  VDict(<<Item("summary", VStr("UX designer")),
          Item("meta",
               VDict(<<Item("slug", VStr("old")),
                       Item("storage",
                            VDict(<<Item("provider", VStr("s3"))>>))>>))>>)

BrokenData == VDict(<<Item("themes", VInt(5))>>)

DraftSlugs == {VNone, VStr(" demo "), VStr(" ")}
DraftStatuses == {VNone, VStr("draft"), VStr("published")}

DraftRequests ==
  [data : {EditedData}, slug : DraftSlugs, status : DraftStatuses,
   visibility : {VNone}]
    \cup {[data |-> BrokenData, slug |-> VStr(" demo "),
           status |-> VStr("published"), visibility |-> VNone],
          [data |-> EditedData, slug |-> VNone, status |-> VNone,
           visibility |-> VStr("public")]}

NoRequest == [data |-> VNone, slug |-> VNone, status |-> VNone,
              visibility |-> VNone]

\* a session before its request
IdleSession ==
  [pc |-> "idle", portfolio_id |-> "", request |-> NoRequest,
   loaded |-> <<>>, row |-> <<>>, resume |-> <<>>, payload |-> VNone,
   status |-> 0]

\* the session after the answer with the status code
Answered(session, status) ==
  [IdleSession EXCEPT !.portfolio_id = session.portfolio_id,
                      !.request = session.request,
                      !.status = status]

InFlight(session) == session.pc \in {"loaded", "checked", "ready"}

InitDrafts ==
  /\ pc = "serving"
  /\ resume_documents = <<>>
  /\ portfolio_drafts = <<>>
  /\ sessions = [s \in 1..MaxSessions |-> IdleSession]
  /\ clock = 0
  /\ OldIdle /\ DbRestIdle

DraftsUnchanged == UNCHANGED <<pc, oldVars, dbRest>>

\* _persist_resume; declared tells whether ResumeDocument accepts the
\* keyword job_description
PersistResume ==
  /\ Len(portfolio_drafts) < MaxDrafts
  /\ \E normalized_ \in DraftPayloads, storage_result \in StorageResults,
        declared \in BOOLEAN :
       LET resume_id == ResumeIds[Len(resume_documents) + 1]
           portfolio_id == DraftIds[Len(portfolio_drafts) + 1]
           normalized_copy ==
             NormalizedCopy(normalized_, resume_id, portfolio_id,
                            storage_result, Now)
       IN IF declared
          THEN /\ resume_documents' =
                    Append(resume_documents,
                           ResumeRecord(normalized_copy, resume_id,
                                        storage_result, Now))
               /\ portfolio_drafts' =
                    Append(portfolio_drafts,
                           PortfolioRecord(normalized_copy, resume_id,
                                           portfolio_id))
          ELSE UNCHANGED <<resume_documents, portfolio_drafts>>
  /\ UNCHANGED <<sessions, clock>>
  /\ DraftsUnchanged

\* PUT /api/portfolios/{portfolio_id} arrives and the portfolio is loaded
\* (line 1043); at most limit requests are in flight
LoadPortfolio(limit) ==
  /\ \E s \in DOMAIN sessions, n \in 1..MaxDrafts,
        request \in DraftRequests :
       /\ ~InFlight(sessions[s])
       /\ clock < MaxClock
       /\ Cardinality({o \in DOMAIN sessions : InFlight(sessions[o])}) < limit
       /\ LET found == RowsWithId(portfolio_drafts, DraftIds[n])
              arrived == [IdleSession EXCEPT !.portfolio_id = DraftIds[n],
                                             !.request = request]
          IN sessions' =
               [sessions EXCEPT
                  ![s] = IF found = <<>> THEN Answered(arrived, 404)
                         ELSE [arrived EXCEPT !.pc = "loaded",
                                              !.loaded = found]]
  /\ clock' = clock + 1
  /\ UNCHANGED <<resume_documents, portfolio_drafts>>
  /\ DraftsUnchanged

\* the query for the slug and the changes to the loaded row (lines
\* 1047-1086)
CheckSlug ==
  /\ \E s \in DOMAIN sessions :
       LET session == sessions[s] IN
       /\ session.pc = "loaded"
       /\ IF SlugConflict(portfolio_drafts, session.loaded[1],
                          session.request.slug)
          THEN sessions' = [sessions EXCEPT ![s] = Answered(session, 409)]
          ELSE IF UpdateRaises(session.request.data)
          THEN sessions' = [sessions EXCEPT ![s] = Answered(session, 500)]
          ELSE sessions' =
                 [sessions EXCEPT
                    ![s] = [session EXCEPT
                              !.pc = "checked",
                              !.row = <<UpdatedPortfolio(session.loaded[1],
                                                         session.request,
                                                         VInt(clock))>>]]
  /\ UNCHANGED <<resume_documents, portfolio_drafts, clock>>
  /\ DraftsUnchanged

\* the load of the resume, the storage metadata and the two assignments
\* (lines 1088-1095)
LoadResume ==
  /\ \E s \in DOMAIN sessions, signed_url \in SignedUrls :
       LET session == sessions[s]
           resume == RowsWithId(resume_documents, session.row[1].resume_id)
       IN /\ session.pc = "checked"
          /\ IF ResumeStorageRaises(resume, session.row[1].content)
             THEN sessions' = [sessions EXCEPT ![s] = Answered(session, 500)]
             ELSE sessions' =
                    [sessions EXCEPT
                       ![s] = [session EXCEPT
                                 !.pc = "ready",
                                 !.resume = resume,
                                 !.row = <<[session.row[1] EXCEPT
                                              !.content =
                                                WithResumeStorage(
                                                  resume, @, signed_url)]>>,
                                 !.payload = WithResumeStorage(
                                               resume,
                                               session.row[1].content,
                                               signed_url)]]
  /\ UNCHANGED <<resume_documents, portfolio_drafts, clock>>
  /\ DraftsUnchanged

\* the resume when the assignment of line 1095 is left out
AssignedResumeSkipped(resume, payload) == resume

\* resume.normalized_payload = copy.deepcopy(updated_content) (line 1095)
AssignedResume(resume, payload) ==
  [resume EXCEPT !.normalized_payload = payload]

\* session.commit() (line 1097): the flush of the two rows, or the
\* IntegrityError of the unique constraint, which nothing handles
Commit ==
  /\ \E s \in DOMAIN sessions :
       LET session == sessions[s] IN
       /\ session.pc = "ready"
       /\ IF UniqueViolation(portfolio_drafts, session.loaded[1],
                             session.row[1])
          THEN /\ sessions' = [sessions EXCEPT ![s] = Answered(session, 500)]
               /\ UNCHANGED <<resume_documents, portfolio_drafts>>
          ELSE /\ sessions' = [sessions EXCEPT ![s] = Answered(session, 200)]
               /\ portfolio_drafts' =
                    FlushedRows(portfolio_drafts, session.loaded[1],
                                session.row[1], PortfolioColumns)
               /\ resume_documents' =
                    IF session.resume = <<>> THEN resume_documents
                    ELSE FlushedRows(resume_documents, session.resume[1],
                                     AssignedResume(session.resume[1],
                                                    session.payload),
                                     {"normalized_payload"})
  /\ UNCHANGED clock
  /\ DraftsUnchanged

NextDrafts ==
  \/ PersistResume
  \/ LoadPortfolio(1)
  \/ CheckSlug
  \/ LoadResume
  \/ Commit

SpecDrafts == InitDrafts /\ [][NextDrafts]_vars

NextUpdates ==
  \/ PersistResume
  \/ LoadPortfolio(MaxSessions)
  \/ CheckSlug
  \/ LoadResume
  \/ Commit

SpecUpdates == InitDrafts /\ [][NextUpdates]_vars

(***************************************************************************)
(* Specifications SpecUpload and SpecUploadFair: runs of                   *)
(* _process_resume_request, one after the other.  A run reads the upload,  *)
(* calls the LLM, normalizes, uploads the PDF to the storage in the        *)
(* attempts of _upload_sync, commits the two rows and, in its finally      *)
(* clause, unlinks the temporary file.  The outcome of every call to the   *)
(* outside (the file system, the LLM, the storage, the database) is        *)
(* chosen by the environment.  SpecUploadFair adds that a run that can     *)
(* take a step takes it: every call returns or raises.                     *)
(***************************************************************************)
\* the runs at most
MaxRequests == 2

ContentTypes == {"application/pdf", "application/octet-stream", "text/plain"}
ContentSizes == {0, 1024, MAX_FILE_SIZE_BYTES, MAX_FILE_SIZE_BYTES + 1}

\* the outcomes of storage_client.upload and of _ensure_client in an attempt
AttemptOutcomes ==
  {[kind |-> "response", status_code |-> 200],
   [kind |-> "response", status_code |-> 401],
   [kind |-> "response", status_code |-> 500],
   [kind |-> "exception", status_code |-> 0],
   [kind |-> "no_client", status_code |-> 0]}

NoAsset == <<>>

\* a run before the request
IdleUpload(n) ==
  [pc |-> "idle", n |-> n, status |-> 0, attempt |-> 0, delay |-> 0,
   storage_result |-> NoAsset, reinit |-> FALSE]

InitUpload ==
  /\ pc = "serving"
  /\ upload_run = IdleUpload(0)
  /\ tmp_files = {}
  /\ storage_log = <<>>
  /\ added_rows = {}
  /\ OldIdle /\ UpRestIdle

UploadUnchanged == UNCHANGED <<pc, oldVars, upRest>>

\* the run moves to the position with the changed locals
Moves(run) == upload_run' = run

\* the run raises the status inside the try of _process_resume_request, or
\* returns: the finally clause is next
Finishes(status) ==
  upload_run' = [upload_run EXCEPT !.pc = "cleanup", !.status = status]

\* POST /api/parse or /api/resumes arrives
Arrive ==
  /\ upload_run.pc \in {"idle", "done"}
  /\ upload_run.n < MaxRequests
  /\ Moves([IdleUpload(upload_run.n + 1) EXCEPT !.pc = "reading"])
  /\ storage_log' = <<>>
  /\ UNCHANGED <<tmp_files, added_rows>>
  /\ UploadUnchanged

\* _read_upload (lines 131-146): the checks, then the temporary file is
\* made and written; written tells whether tmp.write and tmp.flush succeed
ReadUpload ==
  /\ upload_run.pc = "reading"
  /\ \E content_type \in ContentTypes, size \in ContentSizes,
        written \in BOOLEAN :
       IF _read_upload(content_type, size) # 0
       THEN /\ Moves([upload_run EXCEPT
                        !.pc = "done",
                        !.status = _read_upload(content_type, size)])
            /\ UNCHANGED tmp_files
       ELSE /\ tmp_files' = tmp_files \cup {upload_run.n}
            /\ IF written
               THEN Moves([upload_run EXCEPT !.pc = "labelling"])
               ELSE Moves([upload_run EXCEPT !.pc = "done", !.status = 500])
  /\ UNCHANGED <<storage_log, added_rows>>
  /\ UploadUnchanged

\* label_with_llm and generate_tailored_summary (lines 927-949)
Label ==
  /\ upload_run.pc = "labelling"
  /\ \E outcome \in {"parsed", "RuntimeError", "Exception"} :
       CASE outcome = "parsed" ->
              Moves([upload_run EXCEPT !.pc = "normalizing"])
         [] outcome = "RuntimeError" -> Finishes(502)
         [] outcome = "Exception" -> Finishes(500)
  /\ UNCHANGED <<tmp_files, storage_log, added_rows>>
  /\ UploadUnchanged

\* _normalized_payload and generate_tailored_highlights (lines 951-984)
NormalizeUpload ==
  /\ upload_run.pc = "normalizing"
  /\ \E raises \in BOOLEAN :
       IF raises THEN Finishes(500)
       ELSE Moves([upload_run EXCEPT !.pc = "persisting"])
  /\ UNCHANGED <<tmp_files, storage_log, added_rows>>
  /\ UploadUnchanged

\* _maybe_upload_to_supabase and the start of _upload_sync (lines 852-856,
\* 143-156): without settings or client no upload is tried
StartUpload ==
  /\ upload_run.pc = "persisting"
  /\ \E enabled \in BOOLEAN, client \in BOOLEAN :
       IF enabled /\ client
       THEN Moves([upload_run EXCEPT !.pc = "uploading", !.attempt = 1,
                                     !.delay = UploadDelay])
       ELSE Moves([upload_run EXCEPT !.pc = "committing"])
  /\ UNCHANGED <<tmp_files, storage_log, added_rows>>
  /\ UploadUnchanged

\* an attempt of the loop of _upload_sync (lines 157-185)
Attempt ==
  /\ upload_run.pc = "uploading"
  /\ \E outcome \in AttemptOutcomes :
       /\ storage_log' =
            Append(storage_log,
                   [event |-> "attempt", attempt |-> upload_run.attempt,
                    kind |-> outcome.kind,
                    status_code |-> outcome.status_code])
       /\ IF ~AttemptRaises(outcome)
          THEN Moves([upload_run EXCEPT !.pc = "signing"])
          ELSE IF AfterFailure(upload_run.attempt) = "sleep"
          THEN Moves([upload_run EXCEPT
                        !.pc = "sleeping",
                        !.reinit = outcome.kind = "response"
                                     /\ _should_reinit(outcome.status_code)])
          ELSE Finishes(502)
  /\ UNCHANGED <<tmp_files, added_rows>>
  /\ UploadUnchanged

\* sleep(delay); delay *= 2; continue (lines 181-183)
Sleep ==
  /\ upload_run.pc = "sleeping"
  /\ storage_log' =
       Append(storage_log,
              [event |-> "sleep", attempt |-> upload_run.attempt,
               kind |-> "sleep", status_code |-> upload_run.delay])
  /\ Moves([upload_run EXCEPT !.pc = "uploading",
                              !.attempt = @ + 1,
                              !.delay = NextDelay(@),
                              !.reinit = FALSE])
  /\ UNCHANGED <<tmp_files, added_rows>>
  /\ UploadUnchanged

\* the signed URL and the returned asset (lines 187-201)
Sign ==
  /\ upload_run.pc = "signing"
  /\ \E signed_url \in {VNone, VStr("https://s/signed")} :
       Moves([upload_run EXCEPT
                !.pc = "committing",
                !.storage_result =
                  <<UploadedAsset("resumes", "uploads/a.pdf", signed_url)>>])
  /\ UNCHANGED <<tmp_files, storage_log, added_rows>>
  /\ UploadUnchanged

\* the rows session.add_all adds for the run
RowsOf(n) ==
  {[table |-> "resume_documents", run |-> n],
   [table |-> "portfolio_drafts", run |-> n]}

\* the two records, add_all and commit (lines 888-913); declared tells
\* whether ResumeDocument accepts the keyword job_description
CommitRows ==
  /\ upload_run.pc = "committing"
  /\ \E declared \in BOOLEAN, committed \in BOOLEAN :
       IF declared /\ committed
       THEN /\ added_rows' = added_rows \cup RowsOf(upload_run.n)
            /\ Finishes(200)
       ELSE /\ UNCHANGED added_rows
            /\ Finishes(500)
  /\ UNCHANGED <<tmp_files, storage_log>>
  /\ UploadUnchanged

\* the finally clause (lines 994-998); an exception of unlink is passed over
Cleanup ==
  /\ upload_run.pc = "cleanup"
  /\ \E unlinked \in BOOLEAN :
       tmp_files' = IF unlinked THEN tmp_files \ {upload_run.n}
                    ELSE tmp_files
  /\ Moves([upload_run EXCEPT !.pc = "done"])
  /\ UNCHANGED <<storage_log, added_rows>>
  /\ UploadUnchanged

NextUpload ==
  \/ Arrive
  \/ ReadUpload
  \/ Label
  \/ NormalizeUpload
  \/ StartUpload
  \/ Attempt
  \/ Sleep
  \/ Sign
  \/ CommitRows
  \/ Cleanup

SpecUpload == InitUpload /\ [][NextUpload]_vars

\* the steps of a run that has arrived
RunStep ==
  \/ ReadUpload
  \/ Label
  \/ NormalizeUpload
  \/ StartUpload
  \/ Attempt
  \/ Sleep
  \/ Sign
  \/ CommitRows
  \/ Cleanup

SpecUploadFair == SpecUpload /\ WF_vars(RunStep)

(***************************************************************************)
(* Claims about the tokenizer and the classifier.                          *)
(***************************************************************************)
\* the description as the scoring loop sees it
CleanDescription == join(" ", split(description))
ScoredTaxonomy == ScoredDefinitions(taxonomy, CleanDescription, skill_tokens)

\* C1: the returned confidence lies in [0, 0.95] (0..950 thousandths), and an
\* empty or whitespace-only description with no skill tokens gives category
\* "General" (category_id "general") with confidence 0.
C1_ConfidenceBounded ==
  pc = "done" =>
    /\ classification.confidence \in 0..950
    /\ (strip(description) = "" /\ skill_tokens = {}) =>
         /\ classification.category = "General"
         /\ classification.category_id = "general"
         /\ classification.confidence = 0

\* a whitespace-only description without skill tokens has been classified
\* under a non-empty taxonomy
C1_Witness ==
  /\ pc = "done"
  /\ taxonomy # <<>>
  /\ description # ""
  /\ strip(description) = ""
  /\ skill_tokens = {}

NoSignal == \A i \in DOMAIN ScoredTaxonomy : ScoredTaxonomy[i].score = 0

\* C3: an input with no signal at all (every keyword, semantic and skill score
\* zero) resolves to the "General" category with confidence 0, never to a
\* taxonomy category.
C3_NoSignalIsGeneral ==
  (pc = "done" /\ NoSignal) =>
    /\ classification.category_id = "general"
    /\ classification.category = "General"
    /\ classification.confidence = 0

\* C7: no token returned by _tokenize_text is a stopword, and none has length
\* <= 2.
C7_NoStopwordNoShortToken ==
  pc = "done" =>
    \A i \in DOMAIN tokens :
      tokens[i] \notin FIT_STOP_WORDS /\ Len(tokens[i]) > 2

(***************************************************************************)
(* Claims about the fit scorer (specification SpecFit).                    *)
(***************************************************************************)
Scored == pc = "done" /\ fit.outcome # "none"
JobTokens == _tokenize_text(job_description)
ResumeTokens == ResumeTokensOf(normalized_payload)
\* C4: _score_resume_fit fails with the input error exactly when the job
\* description tokenizes to zero terms, whatever the normalized payload (an
\* empty or null one included), and returns a FitResult otherwise.
C4_InputErrorIffNoJobTerms ==
  Scored =>
    /\ JobTokens = <<>> => fit.outcome = "ValueError"
    /\ JobTokens # <<>> => fit.outcome = "FitResult"

\* a non-empty job description made of stopwords and short tokens only,
\* scored against a null payload, has failed with the input error
C4_Witness ==
  /\ Scored
  /\ normalized_payload = None
  /\ strip(job_description) # ""
  /\ JobTokens = <<>>
  /\ fit.outcome = "ValueError"

\* C5: in every FitResult the level is the tier of the returned integer
\* score: Excellent from 85, Strong from 65, Moderate from 40, otherwise
\* Needs more alignment.
C5_LevelIsTierOfScore ==
  (Scored /\ fit.outcome = "FitResult") =>
    fit.level = FitLevelOfRoundedScore(fit.score)

\* whether list is a duplicate-free prefix of at most n of the tokens of pool,
\* those with the largest counts first
IsTopOf(list, pool, counts, n) ==
  /\ Range(list) \subseteq pool
  /\ \A i, j \in DOMAIN list : i < j =>
        /\ list[i] # list[j]
        /\ counts[list[i]] >= counts[list[j]]
  /\ Len(list) = Min(n, Cardinality(pool))
  /\ \A t \in pool \ Range(list) : \A i \in DOMAIN list :
        counts[t] <= counts[list[i]]

\* C6: matchedKeywords is the first 8 and missingKeywords the first 5 of the
\* job description's distinct tokens by descending job-side frequency,
\* restricted to the tokens present in, respectively absent from, the resume
\* tokens; the two lists are disjoint, duplicate-free, and made of job tokens.
C6_KeywordsAreTopJobTokens ==
  (Scored /\ fit.outcome = "FitResult") =>
    LET job_counts == Counter(JobTokens)
        resume == Range(ResumeTokens)
    IN /\ IsTopOf(fit.matchedKeywords, DOMAIN job_counts \cap resume,
                  job_counts, 8)
       /\ IsTopOf(fit.missingKeywords, DOMAIN job_counts \ resume,
                  job_counts, 5)
       /\ Range(fit.matchedKeywords) \cap Range(fit.missingKeywords) = {}

\* a result whose matched list was cut to 8 entries, led by a token the job
\* description repeats, with a missing token as well
C6_Witness ==
  /\ Scored /\ fit.outcome = "FitResult"
  /\ LET job_counts == Counter(JobTokens)
         resume == Range(ResumeTokens)
     IN /\ Cardinality(DOMAIN job_counts \cap resume) > 8
        /\ Len(fit.matchedKeywords) = 8
        /\ job_counts[fit.matchedKeywords[1]] > job_counts[fit.matchedKeywords[8]]
        /\ fit.missingKeywords # <<>>

(***************************************************************************)
(* Claims about URL canonicalization (specification SpecUrl).              *)
(***************************************************************************)
\* C8: canonicalize_http_url is idempotent: canonicalizing its own result
\* gives that result again.
C8_CanonicalizeIdempotent ==
  (pc = "done" /\ Len(canonical) = 2) => canonical[2] = canonical[1]

(***************************************************************************)
(* Claims about the contact links (specification SpecLinks).               *)
(***************************************************************************)
EmbeddedSummary == summarize_embedded_links(embedded_links)
Canonicals(urls) == {canonicalize_http_url(u) : u \in Range(urls)} \ {""}
LinkUrls == [i \in DOMAIN contact_links |-> contact_links[i].url]

\* the URLs build_structure discovers in the text, and in the annotations
DiscoveredInText ==
  Canonicals(extract_urls(text_found,
                          unique_preserve_order(text_emails
                                                  \o EmbeddedSummary.emails)))
DiscoveredInAnnotations == Canonicals(EmbeddedSummary.urls)

\* C9: in the contact links of build_structure every discovered URL has
\* exactly one entry for its canonical form, whose source is "text" when the
\* URL occurs only in the text, "annotation" when it occurs only as an
\* annotation, and "text+annotation" when it occurs in both.
C9_SourceTellsWhereFound ==
  pc = "built" =>
    /\ \A c \in DiscoveredInText \cup DiscoveredInAnnotations :
         Cardinality({i \in DOMAIN contact_links : LinkUrls[i] = c}) = 1
    /\ \A i \in DOMAIN contact_links :
         contact_links[i].source =
           IF LinkUrls[i] \in DiscoveredInText \cap DiscoveredInAnnotations
           THEN "text+annotation"
           ELSE IF LinkUrls[i] \in DiscoveredInText THEN "text"
           ELSE "annotation"

\* the index of the first URL of the list whose canonical form is c
FirstSeen(c, urls) ==
  CHOOSE i \in DOMAIN urls :
    /\ canonicalize_http_url(urls[i]) = c
    /\ \A j \in 1..(i - 1) : canonicalize_http_url(urls[j]) # c

Host(c) == urlparse(c).netloc

\* C10: in the list merge_contact_links returns, each canonical URL appears
\* at most once, the annotation-derived links precede the text-only links,
\* each group is in first-seen order of its input, and a text URL that is not
\* an annotation URL but shares its host with one is absent.
C10_MergedOrderAndSuppression ==
  pc = "merged" =>
    LET annotation_urls == EmbeddedSummary.urls
        annotated == Canonicals(annotation_urls)
        hosts == {Host(c) : c \in annotated}
    IN /\ \A i, j \in DOMAIN LinkUrls : i < j =>
            /\ LinkUrls[i] # LinkUrls[j]
            /\ LinkUrls[j] \in annotated => LinkUrls[i] \in annotated
            /\ (LinkUrls[i] \in annotated /\ LinkUrls[j] \in annotated) =>
                 FirstSeen(LinkUrls[i], annotation_urls)
                   < FirstSeen(LinkUrls[j], annotation_urls)
            /\ (LinkUrls[i] \notin annotated /\ LinkUrls[j] \notin annotated) =>
                 FirstSeen(LinkUrls[i], text_found)
                   < FirstSeen(LinkUrls[j], text_found)
       /\ \A c \in Canonicals(text_found) \ annotated :
            (Host(c) # "" /\ Host(c) \in hosts) => c \notin Range(LinkUrls)

\* a merge of two annotations of one canonical URL with a text-only URL, kept
\* after the annotation link, and a text URL dropped for its annotation host
C10_Witness ==
  /\ pc = "merged"
  /\ Len(EmbeddedSummary.urls) = 2
  /\ Cardinality(Canonicals(EmbeddedSummary.urls)) = 1
  /\ Len(contact_links) = 2
  /\ contact_links[1].source = "annotation"
  /\ contact_links[2].source = "text"
  /\ \E c \in Canonicals(text_found) \ Canonicals(EmbeddedSummary.urls) :
       /\ Host(c) \in {Host(a) : a \in Canonicals(EmbeddedSummary.urls)}
       /\ c \notin Range(LinkUrls)

(***************************************************************************)
(* Claims about the payload normalizer (specification SpecNorm).           *)
(***************************************************************************)
Normalized == norm_result # [outcome |-> "none"]

IsList(val) == val.t = "list"

\* C11: for every loosely typed parsed dict _normalized_payload returns,
\* without raising, a payload whose experience, education, projects and
\* skills are lists and whose contact is a dict with lists under emails,
\* phones and urls.
C11_CollectionsAlwaysPresent ==
  Normalized =>
    /\ norm_result.outcome = "ok"
    /\ \A key \in {"experience", "education", "projects", "skills"} :
         IsList(DictGet(norm_result.payload, key))
    /\ DictGet(norm_result.payload, "contact").t = "dict"
    /\ \A key \in {"emails", "phones", "urls"} :
         IsList(DictGet(DictGet(norm_result.payload, "contact"), key))

\* the job description and the raw resume text given, and the ones kept
GivenJobDescription ==
  join(" ", splitlines(strip(DictGet(llm_parsed, "job_description").v)))
GivenRawText == DictGet(llm_parsed, "raw_resume_text").v
KeptJobDescription == DictGet(norm_result.payload, "job_description").v
KeptRawText ==
  DictGet(DictGet(norm_result.payload, "raw"), "raw_resume_text").v

\* kept is given cut at the end of one of its words
CutAtWordEnd(given, kept) ==
  /\ Len(kept) <= MAX_JOB_DESCRIPTION_LENGTH
  /\ kept = Upto(given, Len(kept))
  /\ Char(given, Len(kept) + 1) \in Whitespace

\* C12: a job description or raw resume text longer than 8192 characters is
\* kept with at most 8192 characters and is cut at a whitespace boundary of
\* the input: what is kept ends with a complete word, never inside a word.
C12_CutAtWhitespaceBoundary ==
  Normalized /\ norm_result.outcome = "ok" =>
    /\ Len(GivenJobDescription) > MAX_JOB_DESCRIPTION_LENGTH =>
         CutAtWordEnd(GivenJobDescription, KeptJobDescription)
    /\ Len(GivenRawText) > MAX_JOB_DESCRIPTION_LENGTH =>
         CutAtWordEnd(GivenRawText, KeptRawText)

(***************************************************************************)
(* Claims about dates (specification SpecDates).                           *)
(***************************************************************************)
\* the date range the pattern finds in the text, as a list of at most one
FoundRange == DateRangeSearch(normalize_dashes(date_text))
FoundEndToken ==
  SubSeq(normalize_dashes(date_text), FoundRange[1].end_first,
         FoundRange[1].last)

\* a 'YYYY-MM' value
IsYearMonth(val) ==
  /\ val.t = "str"
  /\ Len(val.v) = 7
  /\ \A k \in {1, 2, 3, 4, 6, 7} : Char(val.v, k) \in DigitSet
  /\ Char(val.v, 5) = "-"

\* C16: when the text contains a date range, parse_date_range returns a
\* non-null 'YYYY-MM' start date, and an end date that is null exactly when
\* the end token is 'Present' in any letter case and a 'YYYY-MM' value
\* otherwise; when the text contains no date range both are null.
C16_OngoingRangeDistinguishable ==
  date_range # <<>> =>
    IF FoundRange # <<>>
    THEN /\ IsYearMonth(date_range[1])
         /\ date_range[2] = VNone <=> lower(FoundEndToken) = "present"
         /\ date_range[2] # VNone => IsYearMonth(date_range[2])
    ELSE date_range = <<VNone, VNone>>


(***************************************************************************)
(* Claims about sections and their entries.                                *)
(***************************************************************************)
SectionsSplit == pc \in {"split", "experience", "parsed"}

\* whether the line is a recognized heading
IsHeading(line) == normalize_heading(strip(line)) \in SECTION_TITLES

\* the canonical titles of the recognized heading lines of the text, in
\* document order
HeadingTitles(text) ==
  LET headings == SelectSeq(splitlines(text), IsHeading)
  IN [k \in DOMAIN headings |->
        SECTION_CANONICAL[normalize_heading(strip(headings[k]))]]

\* whether non-blank text occurs before the first heading
TextBeforeHeadings(text) ==
  LET raw_lines == splitlines(text)
  IN \E i \in DOMAIN raw_lines :
       /\ strip(raw_lines[i]) # ""
       /\ \A j \in 1..i : ~IsHeading(raw_lines[j])

SectionTitlesOf(sections) == [k \in DOMAIN sections |-> sections[k].title]

\* C13: split_sections returns, in document order, one section per
\* recognized heading line under its canonical title (its content possibly
\* empty), preceded by a "Header" section when non-blank text occurs before
\* the first heading.
C13_OneSectionPerHeading ==
  SectionsSplit =>
    SectionTitlesOf(resume_sections) =
      (IF TextBeforeHeadings(resume_text) THEN <<"Header">> ELSE <<>>)
        \o HeadingTitles(resume_text)

\* C14: for the example resume, split_sections yields exactly the sections
\* "Work Experience" and "Education", the first parses to exactly one
\* experience entry (start 2020-01, no end, achievements "Built things") and
\* the second to exactly one education entry (2016-08 to 2020-05).
C14_ExampleEntries ==
  (pc = "parsed" /\ resume_text = ExampleResume) =>
    /\ SectionTitlesOf(resume_sections) = <<"Work Experience", "Education">>
    /\ Len(experience_entries) = 1
    /\ experience_entries[1].start_date = VStr("2020-01")
    /\ experience_entries[1].end_date = VNone
    /\ experience_entries[1].achievements = <<"Built things">>
    /\ Len(education_entries) = 1
    /\ education_entries[1].start_date = VStr("2016-08")
    /\ education_entries[1].end_date = VStr("2020-05")

\* the first line of the text an entry was made from: the line that started
\* the entry
HeaderLineOf(entry) == splitlines(entry.raw)[1]

IsBulletLine(line) == startswith(line, BULLET) \/ startswith(line, "-")

\* the cleaned lines of the sections with the title, in document order
SectionLines(title) ==
  LET contents == Bucket(resume_sections, title)
  IN Concat([k \in DOMAIN contents |-> CleanLines(contents[k])])

\* the lines that start an entry according to the claim: those with a date
\* range that are no bullet lines
StartingLines(title) ==
  SelectSeq(SectionLines(title),
            LAMBDA line : HasDateRange(line) /\ ~IsBulletLine(line))

HeaderLinesOf(entries) ==
  [k \in DOMAIN entries |-> HeaderLineOf(entries[k])]

\* C15: in both parsers a bullet line never starts an entry even when it
\* contains a date range, every line with a date range that is no bullet line
\* starts an entry, and the entries come in document order: the header lines
\* of the entries that have a date range are exactly the non-bullet lines
\* with a date range, in order.
C15_BulletsNeverStartEntries ==
  pc = "parsed" =>
    /\ SelectSeq(HeaderLinesOf(experience_entries), HasDateRange)
         = StartingLines("Work Experience")
    /\ SelectSeq(HeaderLinesOf(education_entries), HasDateRange)
         = StartingLines("Education")


(***************************************************************************)
(* Claims about the URLs of a text.                                        *)
(***************************************************************************)
\* the URL without its scheme and a leading "www."
SchemeLess(found) ==
  LET rest == IF startswith(lower(found), "https://") THEN From(found, 9)
              ELSE IF startswith(lower(found), "http://") THEN From(found, 8)
              ELSE found
  IN IF startswith(lower(rest), "www.") THEN From(rest, 5) ELSE rest

\* the host of the URL: what comes before the path, query or fragment
HostOf(found) ==
  LET rest == SchemeLess(found)
      stops == {i \in 1..Len(rest) : Char(rest, i) \in {"/", "?", "#"}}
  IN IF stops = {} THEN rest
     ELSE Upto(rest, (CHOOSE i \in stops : \A j \in stops : i <= j) - 1)

\* the domains of the detected e-mail addresses
EmailDomains ==
  {lower(SplitOnce(email, "@")[2]) :
     email \in {e \in Range(contact_emails) : find(e, "@", 1) > 0}}

\* C17: no URL returned by extract_urls has a host (after removing the
\* scheme and a leading "www.") equal to the domain of a detected e-mail
\* address, whether the URL is a bare domain or carries a path, query or
\* fragment.
C17_NoUrlOnEmailDomain ==
  pc = "done" =>
    \A found \in Range(extracted_urls) :
      lower(HostOf(found)) \notin EmailDomains


(***************************************************************************)
(* Claims about the text and the links of a PDF.                           *)
(***************************************************************************)
\* the annotations of the page
AnnotationsOf(page) == IF Truthy(page.Annots) THEN page.Annots.v ELSE <<>>

\* an annotation that is malformed: it cannot be resolved or read, or it is
\* a link without a usable URI
Malformed(annotation) ==
  \/ ~Resolvable(annotation)
  \/ annotation.Subtype = "/Link" /\ ~Truthy(UriOf(annotation))

\* whether the document has a well-formed link annotation with this URL on
\* this page
WellFormedLink(pages, link_url, page_number) ==
  /\ page_number \in DOMAIN pages
  /\ \E annotation \in Range(AnnotationsOf(pages[page_number])) :
       /\ ~Malformed(annotation)
       /\ annotation.Subtype = "/Link"
       /\ str(UriOf(annotation)) = link_url

\* C18: a malformed link annotation is skipped alone: the extraction does not
\* fail, the page texts are returned, every well-formed link of the document
\* is in the link list and nothing else is.
C18_MalformedAnnotationSkipped ==
  pc = "done" =>
    /\ extraction.outcome = "ok"
    /\ extraction.text =
         join("\n", [n \in DOMAIN pdf_pages |-> PieceOf(pdf_pages[n], n)])
    /\ \A n \in DOMAIN pdf_pages :
         \A annotation \in Range(AnnotationsOf(pdf_pages[n])) :
           (~Malformed(annotation) /\ annotation.Subtype = "/Link") =>
             \E link \in Range(extraction.links) :
               link.url = str(UriOf(annotation)) /\ link.page = n
    /\ \A link \in Range(extraction.links) :
         WellFormedLink(pdf_pages, link.url, link.page)


(***************************************************************************)
(* Claims about the state the runs share.                                  *)
(***************************************************************************)
\* C19: in every interleaving of the runs no step writes to the term
\* frequency table or to the pattern cache: both stay as they were when the
\* module was loaded.
C19_SharedStateNeverWritten ==
  [][/\ definition_token_counters' = definition_token_counters
     /\ keyword_pattern_cache' = keyword_pattern_cache]_vars

(***************************************************************************)
(* Claims about the portfolio reads                                        *)
(***************************************************************************)
Reads ==
  {"read_portfolio", "read_portfolio_by_slug", "read_portfolio_draft_preview"}

ReadAnswered == response.endpoint \in Reads /\ response.status = 200

\* the stored content a 200 response of a read was made from: the content of
\* the row its meta names
StoredContent ==
  portfolio[CHOOSE i \in DOMAIN portfolio :
              VStr(portfolio[i].id)
                = DictGet(DictGet(response.data, "meta"), "portfolio_id")
           ].content

\* C20: every read that answers returns, as job_type and resume_job_type,
\* the results the classifier gives at read time for the stored content
\* under the taxonomy in force, whatever was persisted under these keys
C20_ReadsReturnReadTimeClassification ==
  ReadAnswered =>
    /\ ~ResumeJobTypeRaises(taxonomy, StoredContent)
    /\ DictGet(response.data, "job_type")
         = VResult(_infer_job_type(taxonomy, StoredContent))
    /\ DictGet(response.data, "resume_job_type")
         = VResult(_infer_job_type_from_resume(taxonomy, StoredContent))

\* a read answers with the resume_job_type that update_portfolio stored,
\* the classifier having raised on the stored content
C20_PersistedValueReturned ==
  /\ ReadAnswered
  /\ ResumeJobTypeRaises(taxonomy, StoredContent)
  /\ DictGet(response.data, "resume_job_type") = EarlierJobType
  /\ DictGet(StoredContent, "resume_job_type") = EarlierJobType

(***************************************************************************)
(* Claims about the stages and their arguments                             *)
(***************************************************************************)
StageReturned == pc # "start" /\ stage_result.t = "ref"

\* the objects the arguments of the last call reached when it was made
ArgumentObjects == UNION {Reach(heap_before, arg) : arg \in Range(stage_args)}

\* every argument of the last call is equal to its value before the call
ArgumentsKept ==
  \A arg \in Range(stage_args) : Load(heap, arg) = Load(heap_before, arg)

\* the result of the last call is made of objects created by the call
ResultFresh == Reach(heap, stage_result) \cap DOMAIN heap_before = {}

\* C21: after a stage returns, every argument is equal to its value before
\* the call and the result is a fresh value: it holds no object that was
\* there before the call
C21_StagesKeepInputsAndReturnFresh ==
  StageReturned => ArgumentsKept /\ ResultFresh

(***************************************************************************)
(* Claims about the calibration of the confidence                          *)
(***************************************************************************)
Classified_ == pc = "done" /\ classification.category_id # "none"

\* the scored definitions of the classified description
ScoredNow ==
  ScoredDefinitions(taxonomy, join(" ", split(description)), skill_tokens)

\* the best scored definition, as a list of at most one element
BestNow == SelectBest(ScoredNow, <<>>)

\* whether the loop was reached and the best combined score is positive
BestScorePositive ==
  /\ classification # _general_job_type
  /\ BestNow # <<>>
  /\ BestNow[1].score > 0

\* second_best of the calibration
SecondBestNow ==
  LET scores == SelectSeq([i \in DOMAIN ScoredNow |-> ScoredNow[i].score],
                          LAMBDA x : x > 0)
  IN IF Len(scores) > 1 THEN SecondLargest(scores) ELSE 0

\* base of the calibration, in hundred-thousandths
BaseNow ==
  Max(35000,
      Min(95000, Ratio(BestNow[1].score, BestNow[1].score + SecondBestNow)))

\* C22: for every input whose best combined score is positive, the returned
\* confidence is at least the clamped ratio base (as rounded to three
\* places) and at most 0.95
C22_ConfidenceAtLeastBase ==
  (Classified_ /\ BestScorePositive) =>
    /\ classification.confidence >= Round3(BaseNow)
    /\ classification.confidence <= 950

\* whether the classification went through the loop over the definitions
ScoringReached ==
  /\ Classified_
  /\ taxonomy # <<>>
  /\ ~(_tokenize_text(join(" ", split(description))) = <<>>
         /\ skill_tokens = {})

AllScoresNow == [i \in DOMAIN ScoredNow |-> ScoredNow[i].score]

\* the confidence before rounding, in hundred-thousandths
ConfidenceNow == NormalizedConfidence(BestNow[1], AllScoresNow)

\* C23: whenever the definitions are scored, the confidence before rounding
\* is 0 exactly when the best combined score is 0, and then the winner has
\* no keyword and no skill match; otherwise it lies in [0.5, 0.95]; and the
\* fallback for matches without a score never sets the confidence
C23_ConfidenceZeroOnlyWithoutScore ==
  ScoringReached =>
    /\ (ConfidenceNow = 0) <=> (BestNow[1].score = 0)
    /\ BestNow[1].score = 0 =>
         BestNow[1].matches = <<>> /\ BestNow[1].skill_matches = <<>>
    /\ BestNow[1].score > 0 =>
         /\ ConfidenceNow >= 50000
         /\ ConfidenceNow <= 95000
         /\ BestNow[1].score >= SecondBestNow
    /\ ~FallbackApplies(BestNow[1],
                        CalibratedConfidence(BestNow[1], AllScoresNow))
    /\ classification.confidence = Round3(ConfidenceNow)

\* two definitions score, and the ratio of the best to the two decides
C23_TwoDefinitionsScore ==
  /\ ScoringReached
  /\ SecondBestNow > 0
  /\ BestNow[1].score > SecondBestNow
  /\ classification.confidence < 950

(***************************************************************************)
(* Claims about the fit endpoint                                           *)
(***************************************************************************)
\* the stored resume has a job description that is not empty and holds no
\* term of the tokenizer
JobDescriptionWithoutTerms ==
  /\ stored_resume # <<>>
  /\ JobDescriptionSource(stored_resume[1]) # ""
  /\ _tokenize_text(JobDescriptionSource(stored_resume[1])) = <<>>

\* C24: for a stored resume whose job description is not empty but holds no
\* term, the fit endpoint answers with a handled client error (a 4xx
\* status), as it does for a missing job description, and no exception
\* leaves the endpoint
C24_NoTermsIsClientError ==
  (pc = "done" /\ JobDescriptionWithoutTerms) =>
    /\ fit_response.unhandled = ""
    /\ fit_response.status \in 400..499

(***************************************************************************)
(* Claims about the fallback of _infer_job_type_from_resume                *)
(***************************************************************************)
\* the normalized raw resume text of the payload of the call
NormalizedRawNow ==
  _normalize_job_description(
    VStr(RawResumeText(DictGet(stage_args[1], "raw"))))

\* the classification of the raw resume text
RawResultNow ==
  _infer_job_type_from_description(
    taxonomy, NormalizedRawNow,
    _skill_token_set(DictGet(stage_args[1], "skills")))

\* the classification of the structured fragments
FragmentsResultNow ==
  FromFragments(taxonomy, _collect_classification_fragments(stage_args[1]),
                _skill_token_set(DictGet(stage_args[1], "skills")))

ResumeClassified == pc = "done" /\ NormalizedRawNow # ""

\* C25: when the classification of the raw resume text has a confidence
\* below RAW_RESUME_FALLBACK_CONFIDENCE, _infer_job_type_from_resume returns
\* the classification of the structured fragments; when the confidence is at
\* least RAW_RESUME_FALLBACK_CONFIDENCE, it returns the raw-text result.
C25_LowConfidenceFallsBack ==
  ResumeClassified =>
    IF RawResultNow.confidence < RAW_RESUME_FALLBACK_CONFIDENCE
    THEN stage_result.v = FragmentsResultNow
    ELSE stage_result.v = RawResultNow

(***************************************************************************)
(* Claims about the two tables                                             *)
(***************************************************************************)
\* the ResumeDocument rows the draft refers to
ResumeOf(draft) == RowsWithId(resume_documents, draft.resume_id)

\* storage of meta of the content of the draft
StorageOf(draft) ==
  DictGet(DictGetDefault(draft.content, "meta", VDict(<<>>)), "storage")

\* C26: after the uploads and after any sequence of update_portfolio calls,
\* the rows were created in pairs, every PortfolioDraft refers to a
\* ResumeDocument that exists, and its content equals the normalized_payload
\* of that ResumeDocument, the meta, the themes and the storage metadata
\* included.
C26_ContentEqualsNormalizedPayload ==
  /\ Len(resume_documents) = Len(portfolio_drafts)
  /\ \A i \in DOMAIN portfolio_drafts :
       /\ ResumeOf(portfolio_drafts[i]) # <<>>
       /\ ResumeOf(portfolio_drafts[i])[1].normalized_payload
            = portfolio_drafts[i].content

\* an update has written a new slug and the refreshed storage metadata into
\* the content of a draft, and both rows hold it
C26_UpdatedWithStorage ==
  \E i \in DOMAIN portfolio_drafts :
    /\ portfolio_drafts[i].slug = VStr("demo")
    /\ StorageOf(portfolio_drafts[i]).t = "dict"
    /\ DictGet(StorageOf(portfolio_drafts[i]), "signed_url")
         = VStr("https://s/refreshed")
    /\ DictGet(DictGet(ResumeOf(portfolio_drafts[i])[1].normalized_payload,
                       "meta"), "slug") = VStr("demo")

\* no two rows of portfolio_drafts hold the same slug
SlugsUnique ==
  \A i, j \in DOMAIN portfolio_drafts :
    i # j /\ portfolio_drafts[i].slug # VNone
      => portfolio_drafts[i].slug # portfolio_drafts[j].slug

\* the request of session s is answered in the step
AnsweredIn(s) == InFlight(sessions[s]) /\ ~InFlight(sessions'[s])

\* the slug of the request is empty or whitespace only
ClearsSlug(request) == request.slug.t = "str" /\ strip(request.slug.v) = ""

\* the answer to a request whose slug another portfolio holds is 409, a 409
\* leaves the tables as they are, and a request with an empty slug that
\* succeeds leaves its portfolio without slug
SlugStep ==
  \A s \in DOMAIN sessions :
    AnsweredIn(s) =>
      /\ SlugConflict(portfolio_drafts, sessions[s].loaded[1],
                      sessions[s].request.slug)
           => sessions'[s].status = 409
      /\ sessions'[s].status = 409
           => UNCHANGED <<portfolio_drafts, resume_documents>>
      /\ ClearsSlug(sessions[s].request) /\ sessions'[s].status = 200
           => RowsWithId(portfolio_drafts', sessions[s].portfolio_id)[1].slug
                = VNone

\* C27: after any sequence and interleaving of update_portfolio requests no
\* two portfolios hold the same slug; a request whose slug another portfolio
\* holds is answered 409 and changes no row; a request with an empty or
\* whitespace-only slug clears the slug of its portfolio.
C27_SlugsUniqueAndConflictsRejected == []SlugsUnique /\ [][SlugStep]_vars

\* published_at is set exactly on the published rows
PublishedIffStatus ==
  \A i \in DOMAIN portfolio_drafts :
    portfolio_drafts[i].published_at # VNone
      <=> portfolio_drafts[i].status = "published"

\* the sessions whose update of the draft succeeds in the step
Updating(draft) ==
  {s \in DOMAIN sessions :
     /\ AnsweredIn(s)
     /\ sessions'[s].status = 200
     /\ sessions[s].portfolio_id = draft.id}

\* status and published_at of the row after a successful update that
\* carries the status
PublishedAfter(before, after, status) ==
  CASE status = VNone ->
         /\ after.status = before.status
         /\ after.published_at = before.published_at
    [] status = VStr("published") ->
         /\ after.status = "published"
         /\ after.published_at =
              IF before.status = "published" THEN before.published_at
              ELSE VInt(clock)
    [] status = VStr("draft") ->
         /\ after.status = "draft"
         /\ after.published_at = VNone

\* a successful update changes status and published_at by the status it
\* carries, and no other step changes them
PublishedAtStep ==
  \A i \in DOMAIN portfolio_drafts :
    IF Updating(portfolio_drafts[i]) # {}
    THEN \A s \in Updating(portfolio_drafts[i]) :
           PublishedAfter(portfolio_drafts[i], portfolio_drafts'[i],
                          sessions[s].request.status)
    ELSE /\ portfolio_drafts'[i].status = portfolio_drafts[i].status
         /\ portfolio_drafts'[i].published_at
              = portfolio_drafts[i].published_at

RejectedUpload ==
  upload_run.pc = "done" /\ upload_run.status \in {415, 400, 413}

\* the temporary file of the n-th run exists
TmpExists(n) == n \in tmp_files

\* C29: a run rejected by _read_upload (wrong content type, empty file,
\* over 8 MB) makes no temporary file, and the temporary file of every run
\* that made one is deleted in the end, whatever the outcome of the run.
C29_TemporaryFileDeleted ==
  /\ [](RejectedUpload => ~TmpExists(upload_run.n))
  /\ \A n \in 1..MaxRequests : TmpExists(n) ~> ~TmpExists(n)

\* the attempts and the sleeps of _upload_sync in the run so far
UploadAttempts == SelectSeq(storage_log, LAMBDA e : e.event = "attempt")
UploadSleeps == SelectSeq(storage_log, LAMBDA e : e.event = "sleep")

\* the upload of the attempt succeeded
Succeeded(e) == e.event = "attempt" /\ ~AttemptRaises(e)

\* _upload_sync has returned or raised
UploadOver == upload_run.pc \in {"committing", "cleanup", "done"}

\* an attempt is followed by a sleep and nothing follows a success; a sleep
\* follows a failed attempt only
AttemptsAndSleepsAlternate ==
  \A i \in DOMAIN storage_log :
    /\ Succeeded(storage_log[i]) => i = Len(storage_log)
    /\ i < Len(storage_log)
         => storage_log[i].event # storage_log[i + 1].event
    /\ i = 1 => storage_log[i].event = "attempt"

\* the sleeps last 0.5 s, then 1.0 s
SleepsDouble ==
  /\ Len(UploadSleeps) <= 2
  /\ \A i \in DOMAIN UploadSleeps :
       UploadSleeps[i].status_code = <<500, 1000>>[i]

\* when an attempt succeeded an asset is returned, with or without signed
\* URL; when three attempts failed the error is raised, no asset is returned
\* and the run adds no row
UploadOutcome ==
  UploadOver /\ UploadAttempts # <<>> =>
    IF Succeeded(UploadAttempts[Len(UploadAttempts)])
    THEN /\ upload_run.storage_result # NoAsset
         /\ upload_run.storage_result[1].signed_url
              \in {VNone, VStr("https://s/signed")}
    ELSE /\ Len(UploadAttempts) = 3
         /\ upload_run.status = 502
         /\ upload_run.storage_result = NoAsset
         /\ added_rows \cap RowsOf(upload_run.n) = {}

UploadSafe ==
  /\ Len(UploadAttempts) <= 3
  /\ AttemptsAndSleepsAlternate
  /\ SleepsDouble
  /\ UploadOutcome

====
